---- MODULE Spec2Model ----
(***************************************************************************)
(* A model of the sendamatic Go client: the Message builder and Validate,  *)
(* Client.Send with its cancellation points, the error decoder             *)
(* (parseErrorResponse), the response decoder (json.Unmarshal into         *)
(* map[string][2]interface{}) and the SendResponse queries.                *)
(*                                                                         *)
(* Numbers are fixed-point tenths: the integer 2005 stands for 200.5.      *)
(***************************************************************************)
EXTENDS Integers, Sequences, FiniteSets, TLC

\* Bounds of the model.
MaxTo == 1
MaxArrLen == 3

VARIABLES msg, client, calls, ctx, pc, requests, req, resp, result, err, decoded, closes, query

vars == <<msg, client, calls, ctx, pc, requests, req, resp, result, err, decoded, closes, query>>

(***************************************************************************)
(* Values                                                                  *)
(***************************************************************************)

\* Recipient addresses that appear in messages and response bodies, and the
\* addresses a caller asks about (one of them is never in a body).
Addrs == {"a@x.com", "b@x.com"}
QueryAddrs == Addrs \cup {"c@x.com"}

\* A JSON value as it stands in a body.  k is the JSON kind; n the number in
\* tenths; s the string; t the text of the value; elems the elements of an
\* array (scalars).  "bignumber" is a number a float64 holds but no int does
\* (1e300); "overnumber" is a number literal no float64 holds (1e999).
Tok(k, n, s, t) == [k |-> k, n |-> n, s |-> s, t |-> t, elems |-> <<>>]

TokNum200 == Tok("number", 2000, "", "200")
TokStrM1 == Tok("string", 0, "m1", "\"m1\"")
TokNull == Tok("null", 0, "", "null")

\* The scalars an array element is drawn from.
Toks ==
    { TokNum200,
      Tok("number", 5509, "", "550.9"),
      Tok("number", -15, "", "-1.5"),
      Tok("bignumber", 0, "", "1e300"),
      Tok("overnumber", 0, "", "1e999"),
      TokStrM1,
      Tok("string", 0, "OK", "\"OK\""),
      Tok("true", 0, "", "true"),
      TokNull,
      Tok("object", 0, "", "{}") }

\* The scalars of the arrays whose length varies.
FewToks == {TokNum200, TokStrM1}

RECURSIVE JoinText(_)
JoinText(elems) ==
    IF Len(elems) = 0 THEN ""
    ELSE IF Len(elems) = 1 THEN elems[1].t
    ELSE elems[1].t \o "," \o JoinText(Tail(elems))

Arr(elems) ==
    [k |-> "array", n |-> 0, s |-> "", t |-> "[" \o JoinText(elems) \o "]", elems |-> elems]

SeqsUpTo(S, n) == UNION {[1..i -> S] : i \in 0..n}

\* The values a member of a recipient object is drawn from: every pair with
\* one slot free, arrays of every length up to MaxArrLen, and values that are
\* no array.
MemberValues ==
    {Arr(<<x, y>>) : x \in Toks, y \in FewToks}
    \cup {Arr(<<x, y>>) : x \in FewToks, y \in Toks}
    \cup {Arr(e) : e \in SeqsUpTo(FewToks, MaxArrLen)}
    \cup {TokNull, TokStrM1, TokNum200}

OtherMemberValues == {Arr(<<Tok("number", 4000, "", "400"), Tok("string", 0, "m2", "\"m2\"")>>), TokStrM1}


\* A response body.  bk: "invalid" (no JSON text), "null", "array", "string",
\* "number" or "object"; text is the body's bytes; members maps the keys of
\* an object to their values.
Body(bk, text) == [bk |-> bk, text |-> text, members |-> <<>>]

\* The keys of an object in the order they are written in its text.
KeyOrder ==
    <<"a@x.com", "b@x.com", "error", "validation_errors", "json_path", "sender", "smtp_code",
      "StatusCode">>

RECURSIVE MembersText(_, _)
MembersText(m, i) ==
    IF i > Len(KeyOrder) THEN ""
    ELSE LET key == KeyOrder[i]
             rest == MembersText(m, i + 1)
         IN IF key \notin DOMAIN m THEN rest
            ELSE "\"" \o key \o "\":" \o m[key].t \o (IF rest = "" THEN "" ELSE "," \o rest)

Obj(m) == [bk |-> "object", text |-> "{" \o MembersText(m, 1) \o "}", members |-> m]

\* Bodies in the shape of the recipient mapping.
RecipientBodies ==
    {Obj(<<>>)}
    \cup {Obj([key \in {"a@x.com"} |-> v]) : v \in MemberValues}
    \cup {Obj([key \in {"b@x.com"} |-> v]) : v \in OtherMemberValues}
    \cup {Obj([key \in Addrs |-> IF key = "a@x.com" THEN v ELSE w]) :
            v \in MemberValues, w \in OtherMemberValues}

TokStr(s) == Tok("string", 0, s, "\"" \o s \o "\"")

\* Bodies in the shape of the error object.
ErrorBodies ==
    { Obj([key \in {"error"} |-> TokStr("Invalid request")]),
      Obj([key \in {"error", "validation_errors", "json_path"} |->
            CASE key = "error" -> TokStr("Validation failed")
              [] key = "validation_errors" -> TokStr("sender is required")
              [] OTHER -> TokStr("$.sender")]),
      Obj([key \in {"error", "sender", "smtp_code"} |->
            CASE key = "error" -> TokStr("rejected")
              [] key = "sender" -> TokStr("s@x.com")
              [] OTHER -> Tok("number", 5500, "", "550")]),
      Obj([key \in {"error", "validation_errors", "smtp_code"} |->
            CASE key = "error" -> TokStr("rejected")
              [] key = "validation_errors" -> TokStr("bad")
              [] OTHER -> TokStr("550")]),
      Obj([key \in {"error"} |-> TokNum200]),
      Obj([key \in {"error", "StatusCode"} |->
            IF key = "error" THEN TokStr("Invalid request") ELSE TokNum200]) }

\* Bodies that are no JSON object.
OtherBodies ==
    { Body("invalid", ""),
      Body("invalid", "not valid json"),
      Body("invalid", "{\"a@x.com\":[200,"),
      Body("null", "null"),
      Body("array", "[200,\"m1\"]"),
      Body("string", "\"ok\""),
      Body("number", "200") }

Bodies == RecipientBodies \cup ErrorBodies \cup OtherBodies

\* The HTTP status codes a response carries.
Statuses == {200, 201, 399, 400, 422, 500}

(***************************************************************************)
(* The response decoder: json.Unmarshal(body, &sendResp.Recipients)        *)
(***************************************************************************)

\* A Go value held in an interface{}.  k is the dynamic type: "float64",
\* "float64big" (a float64 beyond the range of int), "string", "bool",
\* "nil", "slice", "map", or "int" (never produced by the decoder; a caller
\* building a SendResponse by hand can store one).
GoVal(k, n, s) == [k |-> k, n |-> n, s |-> s]

GoNil == GoVal("nil", 0, "")

\* What encoding/json stores in an interface{} for a JSON value.
StoreInterface(tok) ==
    CASE tok.k = "number" -> GoVal("float64", tok.n, "")
      [] tok.k = "bignumber" -> GoVal("float64big", 0, "")
      [] tok.k = "string" -> GoVal("string", 0, tok.s)
      [] tok.k = "true" -> GoVal("bool", 1, "")
      [] tok.k = "null" -> GoNil
      [] tok.k = "array" -> GoVal("slice", 0, "")
      [] OTHER -> GoVal("map", 0, "")

\* encoding/json cannot store a number literal that no float64 holds.
StoreFails(tok) == tok.k = "overnumber"

\* A JSON value decoded into a [2]interface{}: an array fills the first two
\* elements, further elements are discarded and missing ones stay nil; null
\* leaves the zero value; any other value is a type error.
ArrayLen == 2

DecodePair(v) ==
    [i \in 1..ArrayLen |->
        IF v.k = "array" /\ i <= Len(v.elems) /\ ~StoreFails(v.elems[i])
        THEN StoreInterface(v.elems[i])
        ELSE GoNil]

\* The decoder as it would be if it accepted arrays of two elements only.
DecodePairStrict(v) ==
    \/ v.k # "array"
    \/ Len(v.elems) # ArrayLen
    \/ \E i \in 1..ArrayLen : StoreFails(v.elems[i])

\* The decoder as it would be with a typed pair: a number, then a string.
DecodePairTyped(v) ==
    \/ v.k \notin {"array", "null"}
    \/ v.k = "array" /\ \E i \in 1..ArrayLen : i <= Len(v.elems) /\ StoreFails(v.elems[i])
    \/ v.k = "array" /\ Len(v.elems) >= 1 /\ v.elems[1].k \notin {"number", "bignumber", "null"}
    \/ v.k = "array" /\ Len(v.elems) >= 2 /\ v.elems[2].k \notin {"string", "null"}

DecodePairFails(v) ==
    \/ v.k \notin {"array", "null"}
    \/ v.k = "array" /\ \E i \in 1..ArrayLen : i <= Len(v.elems) /\ StoreFails(v.elems[i])

\* json.Unmarshal(body, &sendResp.Recipients): the error ("" for nil) and the
\* map the target holds afterwards.
UnmarshalRecipients(body) ==
    CASE body.bk = "invalid" -> [err |-> "syntax", recipients |-> <<>>]
      [] body.bk = "null" -> [err |-> "", recipients |-> <<>>]
      [] body.bk = "object" ->
            [err |-> IF \E key \in DOMAIN body.members : DecodePairFails(body.members[key])
                     THEN "type" ELSE "",
             recipients |-> [key \in DOMAIN body.members |-> DecodePair(body.members[key])]]
      [] OTHER -> [err |-> "type", recipients |-> <<>>]

(***************************************************************************)
(* SendResponse and its queries                                            *)
(***************************************************************************)

SendResponse(status, recipients) == [StatusCode |-> status, Recipients |-> recipients]

\* No SendResponse (a nil *SendResponse).
NilResponse == [StatusCode |-> -1, Recipients |-> <<>>]

HTTPStatusOK == 200

\* IsSuccess as it would be if every 2xx status counted.
IsSuccess2xx(r) == r.StatusCode >= 200 /\ r.StatusCode < 300

\* IsSuccess as it would be if a rejected recipient made the call a failure.
IsSuccessAllDelivered(r) ==
    /\ r.StatusCode = HTTPStatusOK
    /\ \A key \in DOMAIN r.Recipients :
          ~(r.Recipients[key][1].k = "float64" /\ r.Recipients[key][1].n >= 4000)

IsSuccess(r) == r.StatusCode = HTTPStatusOK

\* GetMessageID as it would be reading the wrong element.
GetMessageIDFirstElement(r, email) ==
    IF email \in DOMAIN r.Recipients /\ Len(r.Recipients[email]) >= 2
       /\ r.Recipients[email][1].k = "string"
    THEN [id |-> r.Recipients[email][1].s, ok |-> TRUE]
    ELSE [id |-> "", ok |-> FALSE]

GetMessageID(r, email) ==
    IF email \in DOMAIN r.Recipients /\ Len(r.Recipients[email]) >= 2
       /\ r.Recipients[email][2].k = "string"
    THEN [id |-> r.Recipients[email][2].s, ok |-> TRUE]
    ELSE [id |-> "", ok |-> FALSE]

\* The largest and smallest int of the build.  The model's integers are
\* narrower than a 64-bit int; the two stand for the ends of its range.
IntMax == (2^30 - 1) + 2^30
IntMin == (-IntMax) - 1

\* n tenths rounded to the nearest integer.
RoundTenths(n) == IF n >= 0 THEN (n + 5) \div 10 ELSE -(((-n) + 5) \div 10)

\* n tenths truncated toward zero.
TruncTenths(n) == IF n >= 0 THEN n \div 10 ELSE -((-n) \div 10)

\* int(status) for a float64.  Go leaves the result of converting a value no
\* int holds to the implementation: amd64 gives the smallest int, arm64 the
\* largest.
IntOfFloat64(v) ==
    IF v.k = "float64big" THEN {IntMin, IntMax} ELSE {TruncTenths(v.n)}

\* The results GetStatus can return.
GetStatus(r, email) ==
    IF email \in DOMAIN r.Recipients /\ Len(r.Recipients[email]) >= 1
       /\ r.Recipients[email][1].k \in {"float64", "float64big"}
    THEN {[status |-> i, ok |-> TRUE] : i \in IntOfFloat64(r.Recipients[email][1])}
    ELSE {[status |-> 0, ok |-> FALSE]}

(***************************************************************************)
(* The error decoder                                                       *)
(***************************************************************************)

APIError(status) ==
    [StatusCode |-> status, Message |-> "", ValidationErrors |-> "", JSONPath |-> "",
     Sender |-> "", SMTPCode |-> 0]

\* No *APIError.
NilAPIError == APIError(-1)

\* A string field of the error object after json.Unmarshal: a JSON string is
\* stored, anything else leaves the field as it was.
StringField(m, key) ==
    IF key \in DOMAIN m /\ m[key].k = "string" THEN m[key].s ELSE ""

StringFieldFails(m, key) == key \in DOMAIN m /\ m[key].k \notin {"string", "null"}

\* The int field smtp_code: only a number written without a fraction is stored.
IntField(m, key) ==
    IF key \in DOMAIN m /\ m[key].k = "number" /\ m[key].n % 10 = 0
    THEN m[key].n \div 10 ELSE 0

IntFieldFails(m, key) ==
    /\ key \in DOMAIN m
    /\ m[key].k # "null"
    /\ ~(m[key].k = "number" /\ m[key].n % 10 = 0)

\* json.Unmarshal(body, &apiErr): whether it returns an error.
UnmarshalAPIErrorFails(body) ==
    CASE body.bk = "invalid" -> TRUE
      [] body.bk = "null" -> FALSE
      [] body.bk = "object" ->
            \/ \E key \in {"error", "validation_errors", "json_path", "sender"} :
                    StringFieldFails(body.members, key)
            \/ IntFieldFails(body.members, "smtp_code")
      [] OTHER -> TRUE

\* parseErrorResponse as it would be if the body could set the status code.
parseErrorResponseStatusFromBody(statusCode, body) ==
    LET m == IF body.bk = "object" THEN body.members ELSE <<>>
    IN [StatusCode |-> IF "StatusCode" \in DOMAIN m /\ m["StatusCode"].k = "number"
                       THEN m["StatusCode"].n \div 10 ELSE statusCode,
        Message |-> IF UnmarshalAPIErrorFails(body) THEN body.text ELSE StringField(m, "error"),
        ValidationErrors |-> StringField(m, "validation_errors"),
        JSONPath |-> StringField(m, "json_path"),
        Sender |-> StringField(m, "sender"),
        SMTPCode |-> IntField(m, "smtp_code")]

\* json.Unmarshal stores every member it can before it reports the first
\* member it could not store, so the fields of well-typed members are set
\* even when it fails; StatusCode (json:"-") is never read from the body.
parseErrorResponse(statusCode, body) ==
    LET m == IF body.bk = "object" THEN body.members ELSE <<>>
    IN [StatusCode |-> statusCode,
        Message |-> IF UnmarshalAPIErrorFails(body) THEN body.text ELSE StringField(m, "error"),
        ValidationErrors |-> StringField(m, "validation_errors"),
        JSONPath |-> StringField(m, "json_path"),
        Sender |-> StringField(m, "sender"),
        SMTPCode |-> IntField(m, "smtp_code")]

\* Error() as it would be if it also printed the SMTP code.
ErrorWithSMTPCode(e) ==
    "sendamatic api error (status " \o ToString(e.StatusCode) \o "): "
    \o (IF e.ValidationErrors # ""
        THEN e.ValidationErrors \o " (path: " \o e.JSONPath \o ")"
        ELSE e.Message)
    \o (IF e.SMTPCode # 0 THEN " (smtp " \o ToString(e.SMTPCode) \o ")" ELSE "")

\* (*APIError).Error(): fmt.Sprintf with %d for the status code.
Error(e) ==
    IF e.ValidationErrors # ""
    THEN "sendamatic api error (status " \o ToString(e.StatusCode) \o "): "
         \o e.ValidationErrors \o " (path: " \o e.JSONPath \o ")"
    ELSE "sendamatic api error (status " \o ToString(e.StatusCode) \o "): " \o e.Message

(***************************************************************************)
(* Message                                                                 *)
(***************************************************************************)

NewMessage ==
    [To |-> <<>>, CC |-> <<>>, BCC |-> <<>>, Sender |-> "", Subject |-> "",
     TextBody |-> "", HTMLBody |-> "", Headers |-> <<>>, Attachments |-> <<>>]

MaxRecipients == 255

\* Validate as it would be with the sender checked before the recipients.
ValidateSenderFirst(m) ==
    IF m.Sender = "" THEN "sender is required"
    ELSE IF Len(m.To) = 0 THEN "at least one recipient required"
    ELSE IF Len(m.To) > MaxRecipients THEN "maximum 255 recipients allowed"
    ELSE IF m.Subject = "" THEN "subject is required"
    ELSE IF m.TextBody = "" /\ m.HTMLBody = "" THEN "either text_body or html_body is required"
    ELSE ""

\* Validate as it would be with another wording of the last violation.
ValidateOtherWording(m) ==
    IF Len(m.To) = 0 THEN "at least one recipient required"
    ELSE IF Len(m.To) > MaxRecipients THEN "maximum 255 recipients allowed"
    ELSE IF m.Sender = "" THEN "sender is required"
    ELSE IF m.Subject = "" THEN "subject is required"
    ELSE IF m.TextBody = "" /\ m.HTMLBody = "" THEN "text_body or html_body is required"
    ELSE ""

\* Validate as it would be without the subject check.
ValidateNoSubject(m) ==
    IF Len(m.To) = 0 THEN "at least one recipient required"
    ELSE IF Len(m.To) > MaxRecipients THEN "maximum 255 recipients allowed"
    ELSE IF m.Sender = "" THEN "sender is required"
    ELSE IF m.TextBody = "" /\ m.HTMLBody = "" THEN "either text_body or html_body is required"
    ELSE ""

\* Validate as it would be if cc and bcc counted toward the limit.
ValidateCountsCopies(m) ==
    IF Len(m.To) = 0 THEN "at least one recipient required"
    ELSE IF Len(m.To) + Len(m.CC) + Len(m.BCC) > MaxRecipients
    THEN "maximum 255 recipients allowed"
    ELSE IF m.Sender = "" THEN "sender is required"
    ELSE IF m.Subject = "" THEN "subject is required"
    ELSE IF m.TextBody = "" /\ m.HTMLBody = "" THEN "either text_body or html_body is required"
    ELSE ""

\* The error Validate returns ("" for nil).
Validate(m) ==
    IF Len(m.To) = 0 THEN "at least one recipient required"
    ELSE IF Len(m.To) > MaxRecipients THEN "maximum 255 recipients allowed"
    ELSE IF m.Sender = "" THEN "sender is required"
    ELSE IF m.Subject = "" THEN "subject is required"
    ELSE IF m.TextBody = "" /\ m.HTMLBody = "" THEN "either text_body or html_body is required"
    ELSE ""

(***************************************************************************)
(* Client                                                                  *)
(***************************************************************************)

defaultBaseURL == "https://send.api.sendamatic.net"

\* Seconds.
defaultTimeout == 30

\* The http.Client objects a caller hands to WithHTTPClient, by name, each
\* with the Timeout it was created with (seconds).
SuppliedClients == ("c45" :> [Timeout |-> 45]) @@ ("c60" :> [Timeout |-> 60])

\* The options write through pointers.  st.c is the Client under
\* construction, whose httpClient field names an http.Client object, and
\* st.heap holds the http.Client objects.
WithBaseURL(st, baseURL) == [st EXCEPT !.c.baseURL = baseURL]

WithHTTPClient(st, httpClient) == [st EXCEPT !.c.httpClient = httpClient]

\* WithTimeout as it would be if it gave the Client a copy of its http.Client
\* with the new timeout.
WithTimeoutOnCopy(st, timeout) ==
    [c |-> [st.c EXCEPT !.httpClient = "copy"],
     heap |-> [id \in DOMAIN st.heap \cup {"copy"} |->
                 IF id = "copy" THEN [Timeout |-> timeout] ELSE st.heap[id]]]

WithTimeout(st, timeout) == [st EXCEPT !.heap[st.c.httpClient].Timeout = timeout]

ApplyOption(st, opt) ==
    CASE opt.op = "WithBaseURL" -> WithBaseURL(st, opt.url)
      [] opt.op = "WithHTTPClient" -> WithHTTPClient(st, opt.httpClient)
      [] OTHER -> WithTimeout(st, opt.timeout)

\* The loop over the options as it would be if it ran from the last to the first.
RECURSIVE ApplyOptionsReversed(_, _)
ApplyOptionsReversed(st, opts) ==
    IF opts = <<>> THEN st ELSE ApplyOption(ApplyOptionsReversed(st, Tail(opts)), Head(opts))

RECURSIVE ApplyOptions(_, _)
ApplyOptions(st, opts) ==
    IF opts = <<>> THEN st ELSE ApplyOptions(ApplyOption(st, Head(opts)), Tail(opts))

\* The Client with the given key and the defaults, after the options.
Construct(apiKey, opts) ==
    ApplyOptions([c |-> [apiKey |-> apiKey, baseURL |-> defaultBaseURL, httpClient |-> "default"],
                  heap |-> SuppliedClients @@ ("default" :> [Timeout |-> defaultTimeout])],
                 opts)

\* The Client as its holder sees it: its fields, and the http.Client object
\* its httpClient field points to.
Deref(st) ==
    [apiKey |-> st.c.apiKey,
     baseURL |-> st.c.baseURL,
     httpClient |-> [id |-> st.c.httpClient, Timeout |-> st.heap[st.c.httpClient].Timeout]]

\* NewClient as it would be with another separator in the key.
NewClientColonKey(userID, password, opts) == Deref(Construct(userID \o ":" \o password, opts))

NewClient(userID, password, opts) == Deref(Construct(userID \o "-" \o password, opts))

\* An option: WithBaseURL(url), WithTimeout(timeout) or WithHTTPClient(httpClient).
Opt(op, url, timeout, httpClient) ==
    [op |-> op, url |-> url, timeout |-> timeout, httpClient |-> httpClient]

\* The option lists the clients of the model are built with.
OptionLists ==
    { <<>>,
      <<Opt("WithBaseURL", "http://127.0.0.1:8080", 0, "")>>,
      <<Opt("WithBaseURL", "://bad", 0, "")>>,
      <<Opt("WithTimeout", "", 60, ""), Opt("WithHTTPClient", "", 0, "c45")>> }

\* http.NewRequestWithContext fails when the URL does not parse: url.Parse
\* rejects a URL that starts with a colon (missing protocol scheme).
NewRequestFails(url) == SubSeq(url, 1, 1) = ":"

(***************************************************************************)
(* Errors, contexts and responses                                          *)
(***************************************************************************)

NilError == [kind |-> "nil", msg |-> "", cause |-> "", api |-> NilAPIError]

\* Wrap as it would be with %v: the cause becomes part of the text.
WrapStringified(text, cause) ==
    [kind |-> "wrap", msg |-> text \o ": " \o cause, cause |-> "", api |-> NilAPIError]

\* fmt.Errorf(text + ": %w", cause)
Wrap(text, cause) == [kind |-> "wrap", msg |-> text, cause |-> cause, api |-> NilAPIError]

\* An *APIError returned as the error.
APIErr(e) == [kind |-> "api", msg |-> "", cause |-> "", api |-> e]

\* ctx.Err() of a context that is done.
CtxErr(c) == IF c = "canceled" THEN "context canceled" ELSE "context deadline exceeded"

CtxCauses == {"context canceled", "context deadline exceeded"}

\* The request as http.NewRequest would build it: with the background context.
RequestContextBackground(c) == "live"

\* The context the request carries: http.NewRequestWithContext(ctx, ...).
RequestContext(c) == c

\* The errors the transport reports for c.httpClient.Do and for reading the
\* body: a network failure at any time, the error of the request's context
\* once it is done.
TransportCauses(c) ==
    {"connection refused"}
    \cup (IF RequestContext(c) = "live" THEN {} ELSE {CtxErr(RequestContext(c))})

ReadCauses(c) ==
    {"unexpected EOF"}
    \cup (IF RequestContext(c) = "live" THEN {} ELSE {CtxErr(RequestContext(c))})

\* textproto.CanonicalMIMEHeaderKey for the header names the client uses:
\* the first letter and every letter after a hyphen in upper case.
CanonicalHeaderKey(name) ==
    CASE name \in {"content-type", "Content-Type"} -> "Content-Type"
      [] name \in {"x-api-key", "X-Api-Key", "X-API-Key"} -> "X-Api-Key"
      [] OTHER -> name

\* http.Header.Set on an empty header, and http.Header.Get.
HeaderSet(h, name, value) ==
    [key \in DOMAIN h \cup {CanonicalHeaderKey(name)} |->
        IF key = CanonicalHeaderKey(name) THEN value ELSE h[key]]

HeaderGet(h, name) ==
    IF CanonicalHeaderKey(name) \in DOMAIN h THEN h[CanonicalHeaderKey(name)] ELSE ""

\* The request Send builds: http.NewRequestWithContext(ctx, "POST",
\* c.baseURL+"/send", body) and the two req.Header.Set calls.
NewRequest(c, m) ==
    [Method |-> "POST",
     URL |-> c.baseURL \o "/send",
     Header |-> HeaderSet(HeaderSet(<<>>, "Content-Type", "application/json"),
                          "x-api-key", c.apiKey)]

\* No request.
NoReq == [Method |-> "", URL |-> "", Header |-> <<>>]

NoBody == Body("none", "")

\* No *http.Response.
NoResp == [StatusCode |-> -1, body |-> NoBody]

\* No concurrent calls.
NoCalls == <<>>

NoQuery == [op |-> "none", email |-> "", status |-> 0, id |-> "", ok |-> FALSE]

(***************************************************************************)
(* The state machine                                                       *)
(*                                                                         *)
(* pc is where the one Send call of a behaviour stands: "idle" before it,  *)
(* "inflight" while c.httpClient.Do waits for the response headers, "read" *)
(* once Do has returned a response and io.ReadAll has the body to read,    *)
(* "done" after Send has returned.  "literal" is the state of a caller     *)
(* who built a SendResponse by hand instead of calling Send.               *)
(***************************************************************************)

Init ==
    /\ msg = NewMessage
    /\ client \in {NewClient("user", "pass", opts) : opts \in OptionLists}
    /\ ctx = "live"
    /\ pc = "idle"
    /\ requests = 0
    /\ req = NoReq
    /\ resp = NoResp
    /\ result = NilResponse
    /\ err = NilError
    /\ decoded = "none"
    /\ closes = 0
    /\ query = NoQuery
    /\ calls = NoCalls

sendVars == <<client, calls, ctx, pc, requests, req, resp, result, err, decoded, closes, query>>

\* The strings the Set* methods are called with.
Senders == {"", "s@x.com"}
Subjects == {"", "Hello"}
TextBodies == {"", "Body"}
HTMLBodies == {"", "<p>Body</p>"}

AddTo(email) ==
    /\ pc = "idle"
    /\ Len(msg.To) < MaxTo
    /\ msg' = [msg EXCEPT !.To = Append(@, email)]
    /\ UNCHANGED sendVars

\* A caller's loop of n AddTo calls on a message without recipients.
AddToRepeated(n) ==
    /\ pc = "idle"
    /\ msg.To = <<>>
    /\ msg' = [msg EXCEPT !.To = [i \in 1..n |-> "a@x.com"]]
    /\ UNCHANGED sendVars

SetSender(email) ==
    /\ pc = "idle"
    /\ msg' = [msg EXCEPT !.Sender = email]
    /\ UNCHANGED sendVars

SetSubject(subject) ==
    /\ pc = "idle"
    /\ msg' = [msg EXCEPT !.Subject = subject]
    /\ UNCHANGED sendVars

SetTextBody(body) ==
    /\ pc = "idle"
    /\ msg' = [msg EXCEPT !.TextBody = body]
    /\ UNCHANGED sendVars

SetHTMLBody(body) ==
    /\ pc = "idle"
    /\ msg' = [msg EXCEPT !.HTMLBody = body]
    /\ UNCHANGED sendVars

\* The caller's cancellation or deadline signal fires.
CtxDone(how) ==
    /\ ctx = "live"
    /\ pc \in {"idle", "inflight", "read"}
    /\ ctx' = how
    /\ UNCHANGED <<msg, client, calls, pc, requests, req, resp, result, err, decoded, closes, query>>

\* Send returns (r, e).
Return(r, e) ==
    /\ pc' = "done"
    /\ result' = r
    /\ err' = e

\* Send from its entry to the point where c.httpClient.Do waits for the
\* response: Validate, json.Marshal (which cannot fail for a Message: strings
\* and slices of strings only), http.NewRequestWithContext, the two headers,
\* and the dispatch of the request.  The transport does not send a request
\* whose context is already done.
SendStart ==
    /\ pc = "idle"
    /\ IF Validate(msg) # ""
       THEN /\ Return(NilResponse, Wrap("message validation failed", Validate(msg)))
            /\ UNCHANGED <<requests, req>>
       ELSE IF NewRequestFails(client.baseURL \o "/send")
       THEN /\ Return(NilResponse, Wrap("failed to create request", "missing protocol scheme"))
            /\ UNCHANGED <<requests, req>>
       ELSE /\ requests' = requests + 1
            /\ req' = NewRequest(client, msg)
            /\ IF RequestContext(ctx) # "live"
               THEN Return(NilResponse, Wrap("request failed", CtxErr(RequestContext(ctx))))
               ELSE /\ pc' = "inflight"
                    /\ UNCHANGED <<result, err>>
    /\ UNCHANGED <<msg, client, calls, ctx, resp, decoded, closes, query>>

\* Send as it would be if a failed request were sent again.
SendDoErrorRetries ==
    /\ pc = "inflight"
    /\ requests < 3
    /\ requests' = requests + 1
    /\ UNCHANGED <<msg, client, calls, ctx, pc, req, resp, result, err, decoded, closes, query>>

\* c.httpClient.Do returns an error.
SendDoError ==
    /\ pc = "inflight"
    /\ \E cause \in TransportCauses(ctx) : Return(NilResponse, Wrap("request failed", cause))
    /\ UNCHANGED <<msg, client, calls, ctx, requests, req, resp, decoded, closes, query>>

\* c.httpClient.Do returns a response: its headers have arrived.
SendDoResponse ==
    /\ pc = "inflight"
    /\ \E status \in Statuses : resp' = [StatusCode |-> status, body |-> NoBody]
    /\ pc' = "read"
    /\ UNCHANGED <<msg, client, calls, ctx, requests, req, result, err, decoded, closes, query>>

\* The dispatch as it would be with the comparison off by one.
IsErrorStatusAbove(status) == status > 400

\* Which decoder the body goes to.
IsErrorStatus(status) == status >= 400

\* Send after io.ReadAll has returned the body: the decoders, the return.
SendDecode(body) ==
    IF IsErrorStatus(resp.StatusCode)
    THEN /\ decoded' = "error"
         /\ Return(NilResponse, APIErr(parseErrorResponse(resp.StatusCode, body)))
    ELSE /\ decoded' = "response"
         /\ IF UnmarshalRecipients(body).err # ""
            THEN Return(NilResponse,
                        Wrap("failed to unmarshal response", UnmarshalRecipients(body).err))
            ELSE Return(SendResponse(resp.StatusCode, UnmarshalRecipients(body).recipients),
                        NilError)

\* Send as it would be if it looked at the status before reading the body.
SendReadErrorStatusFirst ==
    /\ pc = "read"
    /\ IF IsErrorStatus(resp.StatusCode)
       THEN /\ decoded' = "error"
            /\ Return(NilResponse, APIErr(parseErrorResponse(resp.StatusCode, Body("invalid", ""))))
       ELSE /\ decoded' = decoded
            /\ \E cause \in ReadCauses(ctx) :
                  Return(NilResponse, Wrap("failed to read response", cause))
    /\ closes' = closes + 1
    /\ UNCHANGED <<msg, client, calls, ctx, requests, req, resp, query>>

\* Send as it would be without the deferred Close on a failed read.
SendReadErrorLeaksBody ==
    /\ pc = "read"
    /\ \E cause \in ReadCauses(ctx) : Return(NilResponse, Wrap("failed to read response", cause))
    /\ UNCHANGED <<msg, client, calls, ctx, requests, req, resp, decoded, closes, query>>

\* io.ReadAll fails; the deferred resp.Body.Close() runs on return.
SendReadError ==
    /\ pc = "read"
    /\ \E cause \in ReadCauses(ctx) : Return(NilResponse, Wrap("failed to read response", cause))
    /\ closes' = closes + 1
    /\ UNCHANGED <<msg, client, calls, ctx, requests, req, resp, decoded, query>>

\* io.ReadAll returns the body, Send decodes it and returns; the deferred
\* resp.Body.Close() runs on return.
SendReadAll ==
    /\ pc = "read"
    /\ \E body \in Bodies :
          /\ resp' = [StatusCode |-> resp.StatusCode, body |-> body]
          /\ SendDecode(body)
    /\ closes' = closes + 1
    /\ UNCHANGED <<msg, client, calls, ctx, requests, req, query>>

\* The values a caller stores in a SendResponse built by hand.
LiteralFirst ==
    {GoVal("float64", 2000, ""), GoVal("float64", 5509, ""), GoVal("float64", -15, ""),
     GoVal("float64big", 0, ""), GoVal("int", 2000, ""), GoVal("string", 0, "OK"), GoNil}

LiteralSecond == {GoVal("string", 0, "m1"), GoVal("int", 123450, ""), GoNil}

LiteralStatuses == {0, 200, 201, 204, 400, 401, 500}

LiteralRecipients ==
    {<<>>}
    \cup {[key \in {"a@x.com"} |-> <<x, y>>] : x \in LiteralFirst, y \in LiteralSecond}
    \cup {[key \in Addrs |-> IF key = "a@x.com" THEN <<x, GoVal("string", 0, "m1")>>
                             ELSE <<GoVal("float64", 4000, ""), GoVal("string", 0, "m2")>>] :
            x \in LiteralFirst}

\* A caller builds a SendResponse by hand: &SendResponse{StatusCode: ..., Recipients: ...}.
NewSendResponse ==
    /\ pc = "idle"
    /\ msg = NewMessage
    /\ \E status \in LiteralStatuses, recipients \in LiteralRecipients :
          result' = SendResponse(status, recipients)
    /\ pc' = "literal"
    /\ UNCHANGED <<msg, client, calls, ctx, requests, req, resp, err, decoded, closes, query>>

\* A direct call of msg.Validate(), as the tests make.
CallValidate ==
    /\ pc = "idle"
    /\ query' = [op |-> "Validate", text |-> Validate(msg)]
    /\ pc' = "validated"
    /\ UNCHANGED <<msg, client, calls, ctx, requests, req, resp, result, err, decoded, closes>>

\* The status codes parseErrorResponse is called with directly.
ParseStatuses == {0, 200, 404, 500}

\* A direct call of parseErrorResponse(statusCode, body), as the tests make.
CallParseErrorResponse ==
    /\ pc = "idle"
    /\ msg = NewMessage
    /\ \E statusCode \in ParseStatuses, body \in Bodies :
          query' = [op |-> "parseErrorResponse", statusCode |-> statusCode, body |-> body,
                    err |-> APIErr(parseErrorResponse(statusCode, body))]
    /\ pc' = "parsed"
    /\ UNCHANGED <<msg, client, calls, ctx, requests, req, resp, result, err, decoded, closes>>

\* The APIError values a caller builds by hand: &APIError{...}.
LiteralAPIErrors ==
    [StatusCode : {400, 422, 500}, Message : {"", "SMTP error"},
     ValidationErrors : {"", "sender is required"}, JSONPath : {"", "$.sender"},
     Sender : {"", "test@example.com"}, SMTPCode : {0, 550}]

NewAPIError ==
    /\ pc = "idle"
    /\ msg = NewMessage
    /\ \E e \in LiteralAPIErrors : err' = APIErr(e)
    /\ pc' = "literal"
    /\ UNCHANGED <<msg, client, calls, ctx, requests, req, resp, result, decoded, closes, query>>

\* A caller calls Error() on the *APIError it holds.
CallError ==
    /\ pc \in {"done", "literal"}
    /\ err.kind = "api"
    /\ query' = [op |-> "Error", e |-> err.api, text |-> Error(err.api)]
    /\ UNCHANGED <<msg, client, calls, ctx, pc, requests, req, resp, result, err, decoded, closes>>

HasResponse == pc \in {"done", "literal"} /\ result # NilResponse

queryFrame == <<msg, client, calls, ctx, pc, requests, req, resp, result, err, decoded, closes>>

CallIsSuccess ==
    /\ HasResponse
    /\ query' = [op |-> "IsSuccess", email |-> "", status |-> 0, id |-> "", ok |-> IsSuccess(result)]
    /\ UNCHANGED queryFrame

CallGetStatus(email) ==
    /\ HasResponse
    /\ \E r \in GetStatus(result, email) :
          query' = [op |-> "GetStatus", email |-> email, status |-> r.status, id |-> "", ok |-> r.ok]
    /\ UNCHANGED queryFrame

CallGetMessageID(email) ==
    /\ HasResponse
    /\ query' = [op |-> "GetMessageID", email |-> email, status |-> 0,
                 id |-> GetMessageID(result, email).id, ok |-> GetMessageID(result, email).ok]
    /\ UNCHANGED queryFrame

Next ==
    \/ \E email \in Addrs : AddTo(email)
    \/ \E n \in {MaxRecipients, MaxRecipients + 1} : AddToRepeated(n)
    \/ \E email \in Senders : SetSender(email)
    \/ \E subject \in Subjects : SetSubject(subject)
    \/ \E body \in TextBodies : SetTextBody(body)
    \/ \E body \in HTMLBodies : SetHTMLBody(body)
    \/ \E how \in {"canceled", "deadline"} : CtxDone(how)
    \/ SendStart
    \/ SendDoError
    \/ SendDoResponse
    \/ SendReadError
    \/ SendReadAll
    \/ NewSendResponse
    \/ CallValidate
    \/ CallParseErrorResponse
    \/ NewAPIError
    \/ CallError
    \/ CallIsSuccess
    \/ \E email \in QueryAddrs : CallGetStatus(email)
    \/ \E email \in QueryAddrs : CallGetMessageID(email)

Spec == Init /\ [][Next]_vars

(***************************************************************************)
(* Concurrent Send calls on one Client                                     *)
(*                                                                         *)
(* Every call has its own ctx argument and its own locals (req, resp,      *)
(* body, sendResp, err), here the record calls[p]; the calls share the     *)
(* Client and the Message they are given.                                  *)
(***************************************************************************)

Calls == {1, 2}

\* The locals of a call that has not started.
NewCall ==
    [ctx |-> "live", pc |-> "idle", requests |-> 0, req |-> NoReq, resp |-> NoResp,
     result |-> NilResponse, err |-> NilError, decoded |-> "none", closes |-> 0]

\* The messages the concurrent calls are given: an empty one and one with
\* every required field set.
ConcMessages ==
    {NewMessage,
     [NewMessage EXCEPT !.To = <<"a@x.com">>, !.Sender = "s@x.com", !.Subject = "Hello",
                        !.TextBody = "Body"]}

\* The responses the concurrent calls receive.
ConcStatuses == {200, 400}

ConcBodies ==
    { Obj([key \in {"a@x.com"} |-> Arr(<<TokNum200, TokStrM1>>)]),
      Obj([key \in {"error"} |-> TokStr("Invalid request")]),
      Body("invalid", "not valid json") }

ConcInit ==
    /\ msg \in ConcMessages
    /\ client \in {NewClient("user", "pass", opts) : opts \in OptionLists}
    /\ calls = [p \in Calls |-> NewCall]
    /\ ctx = "live"
    /\ pc = "idle"
    /\ requests = 0
    /\ req = NoReq
    /\ resp = NoResp
    /\ result = NilResponse
    /\ err = NilError
    /\ decoded = "none"
    /\ closes = 0
    /\ query = NoQuery

concFrame == <<msg, client, ctx, pc, requests, req, resp, result, err, decoded, closes, query>>

\* The call returns (r, e).
Returned(call, r, e) == [call EXCEPT !.pc = "done", !.result = r, !.err = e]

\* The signal of call p's context fires.
ConcCtxDone(p, how) ==
    /\ calls[p].ctx = "live"
    /\ calls[p].pc \in {"idle", "inflight", "read"}
    /\ calls' = [calls EXCEPT ![p].ctx = how]
    /\ UNCHANGED concFrame

\* Call p from its entry to the dispatch of its request.
ConcSendStart(p) ==
    LET call == calls[p]
        sent == [call EXCEPT !.requests = call.requests + 1, !.req = NewRequest(client, msg)]
    IN /\ call.pc = "idle"
       /\ calls' = [calls EXCEPT ![p] =
             IF Validate(msg) # ""
             THEN Returned(call, NilResponse, Wrap("message validation failed", Validate(msg)))
             ELSE IF NewRequestFails(client.baseURL \o "/send")
             THEN Returned(call, NilResponse,
                           Wrap("failed to create request", "missing protocol scheme"))
             ELSE IF RequestContext(call.ctx) # "live"
             THEN Returned(sent, NilResponse,
                           Wrap("request failed", CtxErr(RequestContext(call.ctx))))
             ELSE [sent EXCEPT !.pc = "inflight"]]
       /\ UNCHANGED concFrame

\* c.httpClient.Do returns an error to call p.
ConcSendDoError(p) ==
    /\ calls[p].pc = "inflight"
    /\ \E cause \in TransportCauses(calls[p].ctx) :
          calls' = [calls EXCEPT ![p] = Returned(calls[p], NilResponse,
                                                 Wrap("request failed", cause))]
    /\ UNCHANGED concFrame

\* c.httpClient.Do returns a response to call p.
ConcSendDoResponse(p) ==
    /\ calls[p].pc = "inflight"
    /\ \E status \in ConcStatuses :
          calls' = [calls EXCEPT ![p].resp = [StatusCode |-> status, body |-> NoBody],
                                 ![p].pc = "read"]
    /\ UNCHANGED concFrame

\* io.ReadAll fails in call p.
ConcSendReadError(p) ==
    /\ calls[p].pc = "read"
    /\ \E cause \in ReadCauses(calls[p].ctx) :
          calls' = [calls EXCEPT ![p] =
                      Returned([calls[p] EXCEPT !.closes = calls[p].closes + 1], NilResponse,
                               Wrap("failed to read response", cause))]
    /\ UNCHANGED concFrame

\* The locals of a call after it has read body and decoded it.
ConcDecoded(call, body) ==
    LET read == [call EXCEPT !.resp.body = body, !.closes = call.closes + 1]
    IN IF IsErrorStatus(call.resp.StatusCode)
       THEN Returned([read EXCEPT !.decoded = "error"], NilResponse,
                     APIErr(parseErrorResponse(call.resp.StatusCode, body)))
       ELSE IF UnmarshalRecipients(body).err # ""
       THEN Returned([read EXCEPT !.decoded = "response"], NilResponse,
                     Wrap("failed to unmarshal response", UnmarshalRecipients(body).err))
       ELSE Returned([read EXCEPT !.decoded = "response"],
                     SendResponse(call.resp.StatusCode, UnmarshalRecipients(body).recipients),
                     NilError)

\* Send as it would be if the body were read into a buffer that the Client
\* holds: every call that is reading sees the bytes read last.
ConcSendReadAllSharedBuffer(p) ==
    /\ calls[p].pc = "read"
    /\ \E body \in ConcBodies :
          calls' = [q \in Calls |->
                      IF q = p THEN ConcDecoded(calls[p], body)
                      ELSE IF calls[q].pc = "read" THEN [calls[q] EXCEPT !.resp.body = body]
                      ELSE calls[q]]
    /\ UNCHANGED concFrame

\* io.ReadAll returns the body to call p, which decodes it and returns.
ConcSendReadAll(p) ==
    /\ calls[p].pc = "read"
    /\ \E body \in ConcBodies : calls' = [calls EXCEPT ![p] = ConcDecoded(calls[p], body)]
    /\ UNCHANGED concFrame

ConcNext ==
    \/ \E p \in Calls, how \in {"canceled", "deadline"} : ConcCtxDone(p, how)
    \/ \E p \in Calls : ConcSendStart(p)
    \/ \E p \in Calls : ConcSendDoError(p)
    \/ \E p \in Calls : ConcSendDoResponse(p)
    \/ \E p \in Calls : ConcSendReadError(p)
    \/ \E p \in Calls : ConcSendReadAll(p)

SpecConc == ConcInit /\ [][ConcNext]_vars

(***************************************************************************)
(* One Send call of a message that is already built, with the guarantee    *)
(* of net/http that a request whose context is done does not stay blocked: *)
(* c.httpClient.Do and the reads of the body return.                       *)
(***************************************************************************)

LiveInit ==
    /\ msg \in ConcMessages
    /\ client \in {NewClient("user", "pass", opts) : opts \in OptionLists}
    /\ ctx = "live"
    /\ pc = "idle"
    /\ requests = 0
    /\ req = NoReq
    /\ resp = NoResp
    /\ result = NilResponse
    /\ err = NilError
    /\ decoded = "none"
    /\ closes = 0
    /\ query = NoQuery
    /\ calls = NoCalls

LiveNext ==
    \/ \E how \in {"canceled", "deadline"} : CtxDone(how)
    \/ SendStart
    \/ SendDoError
    \/ SendDoResponse
    \/ SendReadError
    \/ SendReadAll

\* The transport returns to Send once the context of the request is done.
TransportUnblocks ==
    /\ RequestContext(ctx) # "live"
    /\ (SendDoError \/ SendDoResponse \/ SendReadError \/ SendReadAll)

LiveSpec == LiveInit /\ [][LiveNext]_vars /\ WF_vars(TransportUnblocks)

(***************************************************************************)
(* Construction of a Client: NewClient with every list of options          *)
(***************************************************************************)

\* The longest list of options.
MaxOpts == 3

\* The options NewClient is called with.
ClientOpts ==
    { Opt("WithBaseURL", "http://127.0.0.1:8080", 0, ""),
      Opt("WithBaseURL", "https://custom.api.url", 0, ""),
      Opt("WithTimeout", "", 10, ""),
      Opt("WithHTTPClient", "", 0, "c45"),
      Opt("WithHTTPClient", "", 0, "c60") }

\* No Client yet.
NoClient == [apiKey |-> "", baseURL |-> "", httpClient |-> [id |-> "", Timeout |-> 0]]

ClientInit ==
    /\ client = NoClient
    /\ msg = NewMessage
    /\ ctx = "live"
    /\ pc = "idle"
    /\ requests = 0
    /\ req = NoReq
    /\ resp = NoResp
    /\ result = NilResponse
    /\ err = NilError
    /\ decoded = "none"
    /\ closes = 0
    /\ query = NoQuery
    /\ calls = NoCalls

\* A call of NewClient("user", "pass", opts...).
CallNewClient ==
    /\ client = NoClient
    /\ \E opts \in SeqsUpTo(ClientOpts, MaxOpts) :
          /\ client' = NewClient("user", "pass", opts)
          /\ query' = [op |-> "NewClient", userID |-> "user", password |-> "pass", opts |-> opts]
    /\ UNCHANGED <<msg, calls, ctx, pc, requests, req, resp, result, err, decoded, closes>>

ClientNext == CallNewClient

SpecClient == ClientInit /\ [][ClientNext]_vars

(***************************************************************************)
(* Clients that share an http.Client                                       *)
(***************************************************************************)

\* A Client built earlier with WithHTTPClient(c), c one of the supplied
\* objects; its httpClient field is shown with the Timeout c has now.
ShareInit ==
    /\ client \in {NewClient("other", "pass", <<Opt("WithHTTPClient", "", 0, c)>>) :
                      c \in DOMAIN SuppliedClients}
    /\ msg = NewMessage
    /\ ctx = "live"
    /\ pc = "idle"
    /\ requests = 0
    /\ req = NoReq
    /\ resp = NoResp
    /\ result = NilResponse
    /\ err = NilError
    /\ decoded = "none"
    /\ closes = 0
    /\ query = NoQuery
    /\ calls = NoCalls

\* A call of NewClient("user", "pass", opts...) while the earlier Client
\* exists: built is the new Client, objects are the supplied http.Client
\* objects as their holders see them after the call.
CallNewClientSharing ==
    /\ query = NoQuery
    /\ \E opts \in SeqsUpTo(ClientOpts, MaxOpts) :
          LET st == Construct("user" \o "-" \o "pass", opts)
          IN /\ query' = [op |-> "NewClient", userID |-> "user", password |-> "pass",
                          opts |-> opts, built |-> Deref(st),
                          objects |-> [c \in DOMAIN SuppliedClients |-> st.heap[c]]]
             /\ client' = [client EXCEPT
                           !.httpClient.Timeout = st.heap[client.httpClient.id].Timeout]
    /\ UNCHANGED <<msg, calls, ctx, pc, requests, req, resp, result, err, decoded, closes>>

SpecShare == ShareInit /\ [][CallNewClientSharing]_vars

(***************************************************************************)
(* The Message builder: every builder method, called directly              *)
(***************************************************************************)

Base64Alphabet == "ABCDEFGHIJKLMNOPQRSTUVWXYZabcdefghijklmnopqrstuvwxyz0123456789+/"

\* The character of the 6-bit value i.
Base64Char(i) == SubSeq(Base64Alphabet, i + 1, i + 1)

\* base64.RawStdEncoding.EncodeToString: the encoding without padding.
RECURSIVE RawEncodeToString(_)
RawEncodeToString(src) ==
    IF Len(src) = 0 THEN ""
    ELSE IF Len(src) = 1
    THEN Base64Char(src[1] \div 4) \o Base64Char((src[1] % 4) * 16)
    ELSE IF Len(src) = 2
    THEN Base64Char(src[1] \div 4) \o Base64Char((src[1] % 4) * 16 + src[2] \div 16)
         \o Base64Char((src[2] % 16) * 4)
    ELSE Base64Char(src[1] \div 4) \o Base64Char((src[1] % 4) * 16 + src[2] \div 16)
         \o Base64Char((src[2] % 16) * 4 + src[3] \div 64) \o Base64Char(src[3] % 64)
         \o RawEncodeToString(SubSeq(src, 4, Len(src)))

\* base64.StdEncoding.EncodeToString: three bytes make four characters, and
\* the last group of one or two bytes is padded with "=".
RECURSIVE EncodeToString(_)
EncodeToString(src) ==
    IF Len(src) = 0 THEN ""
    ELSE IF Len(src) = 1
    THEN Base64Char(src[1] \div 4) \o Base64Char((src[1] % 4) * 16) \o "=="
    ELSE IF Len(src) = 2
    THEN Base64Char(src[1] \div 4) \o Base64Char((src[1] % 4) * 16 + src[2] \div 16)
         \o Base64Char((src[2] % 16) * 4) \o "="
    ELSE Base64Char(src[1] \div 4) \o Base64Char((src[1] % 4) * 16 + src[2] \div 16)
         \o Base64Char((src[2] % 16) * 4 + src[3] \div 64) \o Base64Char(src[3] % 64)
         \o EncodeToString(SubSeq(src, 4, Len(src)))

\* The 6-bit value of a character, -1 for a character outside the alphabet.
Base64Index(c) ==
    IF \E i \in 0..63 : Base64Char(i) = c
    THEN CHOOSE i \in 0..63 : Base64Char(i) = c
    ELSE -1

DecodeFails == [ok |-> FALSE, bytes |-> <<>>]

\* base64.StdEncoding.DecodeString: four characters make three bytes; "="
\* only pads the last group.
RECURSIVE DecodeString(_)
DecodeString(s) ==
    IF s = "" THEN [ok |-> TRUE, bytes |-> <<>>]
    ELSE IF Len(s) < 4 THEN DecodeFails
    ELSE LET v1 == Base64Index(SubSeq(s, 1, 1))
             v2 == Base64Index(SubSeq(s, 2, 2))
             v3 == Base64Index(SubSeq(s, 3, 3))
             v4 == Base64Index(SubSeq(s, 4, 4))
             rest == DecodeString(SubSeq(s, 5, Len(s)))
         IN IF v1 < 0 \/ v2 < 0 THEN DecodeFails
            ELSE IF SubSeq(s, 3, 4) = "=="
            THEN IF Len(s) = 4 THEN [ok |-> TRUE, bytes |-> <<v1 * 4 + v2 \div 16>>]
                 ELSE DecodeFails
            ELSE IF v3 < 0 THEN DecodeFails
            ELSE IF SubSeq(s, 4, 4) = "="
            THEN IF Len(s) = 4
                 THEN [ok |-> TRUE,
                       bytes |-> <<v1 * 4 + v2 \div 16, (v2 % 16) * 16 + v3 \div 4>>]
                 ELSE DecodeFails
            ELSE IF v4 < 0 \/ ~rest.ok THEN DecodeFails
            ELSE [ok |-> TRUE,
                  bytes |-> <<v1 * 4 + v2 \div 16, (v2 % 16) * 16 + v3 \div 4,
                              (v3 % 4) * 64 + v4>> \o rest.bytes]

\* The longest list the builder appends to one entry at a time.
MaxList == 2

\* What the builder calls are made with.
ToEmails == {"a@x.com", ""}
HeaderArgs == {<<"X-Priority", "1">>}
LoopCounts == {255, 256}

Header(name, value) == [Header |-> name, Value |-> value]

Attachment(filename, data, mimeType) ==
    [Filename |-> filename, Data |-> data, MimeType |-> mimeType]

\* What a builder call leaves alone.
builderFrame == <<client, calls, ctx, pc, requests, req, resp, result, err, decoded, closes>>

MsgInit ==
    /\ msg = NewMessage
    /\ client = NewClient("user", "pass", <<>>)
    /\ ctx = "live"
    /\ pc = "idle"
    /\ requests = 0
    /\ req = NoReq
    /\ resp = NoResp
    /\ result = NilResponse
    /\ err = NilError
    /\ decoded = "none"
    /\ closes = 0
    /\ query = NoQuery
    /\ calls = NoCalls

\* AddTo as it would be if it put the new entry first.
CallAddToFront(email) ==
    /\ pc = "idle"
    /\ Len(msg.To) < MaxList
    /\ msg' = [msg EXCEPT !.To = <<email>> \o @]
    /\ query' = [op |-> "AddTo", args |-> <<email>>, ret |-> msg']
    /\ UNCHANGED builderFrame

\* m.AddTo(email); ret is the message the returned pointer points to.
CallAddTo(email) ==
    /\ pc = "idle"
    /\ Len(msg.To) < MaxList
    /\ msg' = [msg EXCEPT !.To = Append(@, email)]
    /\ query' = [op |-> "AddTo", args |-> <<email>>, ret |-> msg']
    /\ UNCHANGED builderFrame

\* A caller's loop of n AddTo calls on a message without recipients.
CallAddToLoop(n) ==
    /\ pc = "idle"
    /\ msg.To = <<>>
    /\ msg' = [msg EXCEPT !.To = [i \in 1..n |-> "a@x.com"]]
    /\ query' = [op |-> "AddToLoop", args |-> <<n>>, ret |-> msg']
    /\ UNCHANGED builderFrame

CallAddCC(email) ==
    /\ pc = "idle"
    /\ Len(msg.CC) < MaxList
    /\ msg' = [msg EXCEPT !.CC = Append(@, email)]
    /\ query' = [op |-> "AddCC", args |-> <<email>>, ret |-> msg']
    /\ UNCHANGED builderFrame

\* A caller's loop of n AddCC calls on a message without cc entries.
CallAddCCLoop(n) ==
    /\ pc = "idle"
    /\ msg.CC = <<>>
    /\ msg' = [msg EXCEPT !.CC = [i \in 1..n |-> "c@x.com"]]
    /\ query' = [op |-> "AddCCLoop", args |-> <<n>>, ret |-> msg']
    /\ UNCHANGED builderFrame

CallAddBCC(email) ==
    /\ pc = "idle"
    /\ Len(msg.BCC) < MaxList
    /\ msg' = [msg EXCEPT !.BCC = Append(@, email)]
    /\ query' = [op |-> "AddBCC", args |-> <<email>>, ret |-> msg']
    /\ UNCHANGED builderFrame

CallSetSender(email) ==
    /\ pc = "idle"
    /\ msg' = [msg EXCEPT !.Sender = email]
    /\ query' = [op |-> "SetSender", args |-> <<email>>, ret |-> msg']
    /\ UNCHANGED builderFrame

CallSetSubject(subject) ==
    /\ pc = "idle"
    /\ msg' = [msg EXCEPT !.Subject = subject]
    /\ query' = [op |-> "SetSubject", args |-> <<subject>>, ret |-> msg']
    /\ UNCHANGED builderFrame

CallSetTextBody(body) ==
    /\ pc = "idle"
    /\ msg' = [msg EXCEPT !.TextBody = body]
    /\ query' = [op |-> "SetTextBody", args |-> <<body>>, ret |-> msg']
    /\ UNCHANGED builderFrame

CallSetHTMLBody(body) ==
    /\ pc = "idle"
    /\ msg' = [msg EXCEPT !.HTMLBody = body]
    /\ query' = [op |-> "SetHTMLBody", args |-> <<body>>, ret |-> msg']
    /\ UNCHANGED builderFrame

CallAddHeader(name, value) ==
    /\ pc = "idle"
    /\ Len(msg.Headers) < MaxList
    /\ msg' = [msg EXCEPT !.Headers = Append(@, Header(name, value))]
    /\ query' = [op |-> "AddHeader", args |-> <<name, value>>, ret |-> msg']
    /\ UNCHANGED builderFrame

\* m.AttachFile(filename, mimeType, data): original is the content of the
\* caller's slice at the call, data its content now.
CallAttachFile(filename, mimeType, data) ==
    /\ pc = "idle"
    /\ Len(msg.Attachments) < MaxList
    /\ msg' = [msg EXCEPT
               !.Attachments = Append(@, Attachment(filename, EncodeToString(data), mimeType))]
    /\ query' = [op |-> "AttachFile", args |-> <<filename, mimeType>>,
                 original |-> data, data |-> data, ret |-> msg']
    /\ UNCHANGED builderFrame

MsgNext ==
    \/ \E email \in ToEmails : CallAddTo(email)
    \/ \E n \in LoopCounts : CallAddToLoop(n)
    \/ \E email \in {"c@x.com"} : CallAddCC(email)
    \/ \E n \in LoopCounts : CallAddCCLoop(n)
    \/ \E email \in {"b@x.com"} : msg.BCC = <<>> /\ CallAddBCC(email)
    \/ \E email \in Senders : CallSetSender(email)
    \/ \E subject \in Subjects : CallSetSubject(subject)
    \/ \E body \in TextBodies : CallSetTextBody(body)
    \/ \E body \in HTMLBodies : CallSetHTMLBody(body)
    \/ \E h \in HeaderArgs : CallAddHeader(h[1], h[2])
    \/ msg.Attachments = <<>> /\ CallAttachFile("a.txt", "text/plain", <<77>>)
    \/ CallValidate

SpecMessage == MsgInit /\ [][MsgNext]_vars

(***************************************************************************)
(* Attachments: AttachFile, AttachFileFromPath and their serialization     *)
(***************************************************************************)

\* The longest byte slice attached.
MaxData == 3

Bytes == {0, 77, 255}
AttachData == SeqsUpTo(Bytes, MaxData)
AttachNames == {"test.txt", ""}
MimeTypes == {"text/plain"}

\* The readable files of the filesystem, with their content.
Files ==
    ("testdata/test.txt" :> <<116, 101, 115, 116>>) @@ ("plain.txt" :> <<>>)
    @@ ("C:\\docs\\b.bin" :> <<0, 255>>) @@ ("a/b\\c.txt" :> <<77>>)
    @@ ("a\\b/c.txt" :> <<77, 97, 110>>)

\* The paths tried: the files, a directory, two missing files and the empty path.
Paths == DOMAIN Files \cup {"testdata", "nonexistent.txt", "missing/none.txt", ""}

\* os.ReadFile: the content, or the *PathError of the failed open or read.
ReadFile(path) ==
    IF path \in DOMAIN Files THEN [data |-> Files[path], err |-> ""]
    ELSE IF path = "testdata"
    THEN [data |-> <<>>, err |-> "read " \o path \o ": is a directory"]
    ELSE [data |-> <<>>, err |-> "open " \o path \o ": no such file or directory"]

\* The file name as it would be with "/" as the only separator.
FilenameSlashOnly(path) ==
    LET slashes == {i \in 1..Len(path) : SubSeq(path, i, i) = "/"}
    IN IF slashes = {} THEN path
       ELSE SubSeq(path, (CHOOSE i \in slashes : \A j \in slashes : j <= i) + 1, Len(path))

\* The loop of AttachFileFromPath from index i down: the path after the first
\* separator met, the whole path when there is none.
RECURSIVE ScanFilename(_, _)
ScanFilename(path, i) ==
    IF i < 1 THEN path
    ELSE IF SubSeq(path, i, i) \in {"/", "\\"} THEN SubSeq(path, i + 1, Len(path))
    ELSE ScanFilename(path, i - 1)

Filename(path) == ScanFilename(path, Len(path))

\* m.AttachFileFromPath(path, mimeType)
CallAttachFileFromPath(path, mimeType) ==
    /\ pc = "idle"
    /\ Len(msg.Attachments) < MaxList
    /\ LET r == ReadFile(path)
       IN IF r.err # ""
          THEN /\ msg' = msg
               /\ query' = [op |-> "AttachFileFromPath", args |-> <<path, mimeType>>,
                            original |-> <<>>, data |-> <<>>, err |-> r.err]
          ELSE /\ msg' = [msg EXCEPT !.Attachments =
                            Append(@, Attachment(Filename(path), EncodeToString(r.data),
                                                 mimeType))]
               /\ query' = [op |-> "AttachFileFromPath", args |-> <<path, mimeType>>,
                            original |-> r.data, data |-> r.data, err |-> ""]
    /\ UNCHANGED builderFrame

\* After AttachFile returned the caller overwrites the slice it passed.
CallerOverwrites ==
    /\ query.op = "AttachFile"
    /\ query.data # <<>>
    /\ query.data = query.original
    /\ query' = [query EXCEPT !.data = [i \in DOMAIN @ |-> (@[i] + 1) % 256]]
    /\ UNCHANGED msg
    /\ UNCHANGED builderFrame

\* json.Marshal(msg), the attachments member: each attachment with the names
\* of its struct tags.
MarshalAttachments(m) ==
    [i \in 1..Len(m.Attachments) |->
        [filename |-> m.Attachments[i].Filename, data |-> m.Attachments[i].Data,
         mimetype |-> m.Attachments[i].MimeType]]

\* The message is serialized after an attachment call.
CallMarshal ==
    /\ pc = "idle"
    /\ query.op \in {"AttachFile", "AttachFileFromPath"}
    /\ query' = [op |-> "Marshal", args |-> query.args, original |-> query.original,
                 data |-> query.data, attached |-> query.op,
                 json |-> MarshalAttachments(msg)]
    /\ pc' = "marshalled"
    /\ UNCHANGED <<msg, client, calls, ctx, requests, req, resp, result, err, decoded, closes>>

\* The messages the attachment calls are made on: a new message, and one
\* that already has an attachment.
AttachMessages ==
    {NewMessage,
     [NewMessage EXCEPT !.Attachments =
        <<Attachment("old.bin", EncodeToString(<<1, 2, 3>>), "application/octet-stream")>>]}

AttachInit ==
    /\ msg \in AttachMessages
    /\ client = NewClient("user", "pass", <<>>)
    /\ ctx = "live"
    /\ pc = "idle"
    /\ requests = 0
    /\ req = NoReq
    /\ resp = NoResp
    /\ result = NilResponse
    /\ err = NilError
    /\ decoded = "none"
    /\ closes = 0
    /\ query = NoQuery
    /\ calls = NoCalls

AttachNext ==
    \/ \E filename \in AttachNames, mimeType \in MimeTypes, data \in AttachData :
          query = NoQuery /\ CallAttachFile(filename, mimeType, data)
    \/ \E path \in Paths, mimeType \in MimeTypes : CallAttachFileFromPath(path, mimeType)
    \/ CallerOverwrites
    \/ CallMarshal

SpecAttach == AttachInit /\ [][AttachNext]_vars

(***************************************************************************)
(* Properties                                                              *)
(***************************************************************************)

\* Send has returned after reading the body of a response.
BodyRead == pc = "done" /\ resp.body # NoBody

\* C1: once a response has been received and its body read, Send returns an
\* *APIError made by the error decoder, carrying the HTTP status, and a nil
\* result exactly when the status is >= 400; a body with a status < 400 goes
\* to the response decoder and never to the error decoder.
C1_StatusRoutesToDecoder ==
    BodyRead =>
        /\ (resp.StatusCode >= 400) <=> (err.kind = "api")
        /\ (resp.StatusCode >= 400) <=> (decoded = "error")
        /\ (resp.StatusCode < 400) <=> (decoded = "response")
        /\ err.kind = "api" =>
              /\ result = NilResponse
              /\ err.api.StatusCode = resp.StatusCode
              /\ err.api = parseErrorResponse(resp.StatusCode, resp.body)

C1_Witness ==
    /\ BodyRead
    /\ resp.StatusCode = 400
    /\ err.kind = "api"
    /\ err.api.StatusCode = 400
    /\ err.api.Message = "Invalid request"

\* An entry of the recipient mapping as the service writes it: a status
\* without a fraction and a message id.
WellFormedEntry(v) ==
    /\ v.k = "array"
    /\ Len(v.elems) = 2
    /\ v.elems[1].k = "number"
    /\ v.elems[1].n % 10 = 0
    /\ v.elems[2].k = "string"

\* A 200 response of well-formed entries, one of them rejected.
PartialFailure ==
    /\ BodyRead
    /\ resp.StatusCode = 200
    /\ resp.body.bk = "object"
    /\ \A key \in DOMAIN resp.body.members : WellFormedEntry(resp.body.members[key])
    /\ \E key \in DOMAIN resp.body.members : resp.body.members[key].elems[1].n >= 4000

\* C2: for a 200 response whose body maps some recipients to a status >= 400,
\* Send returns a result and no error, IsSuccess() is true, and GetStatus and
\* GetMessageID give every recipient its own status and message id.
C2_PartialFailureIsNoError ==
    PartialFailure =>
        /\ err = NilError
        /\ result # NilResponse
        /\ IsSuccess(result)
        /\ \A key \in DOMAIN resp.body.members :
              /\ GetStatus(result, key) =
                    {[status |-> resp.body.members[key].elems[1].n \div 10, ok |-> TRUE]}
              /\ GetMessageID(result, key) =
                    [id |-> resp.body.members[key].elems[2].s, ok |-> TRUE]
        /\ query.op = "IsSuccess" => query.ok
        /\ query.op = "GetStatus" /\ query.email \in DOMAIN resp.body.members =>
              /\ query.ok
              /\ query.status = resp.body.members[query.email].elems[1].n \div 10
        /\ query.op = "GetMessageID" /\ query.email \in DOMAIN resp.body.members =>
              /\ query.ok
              /\ query.id = resp.body.members[query.email].elems[2].s

C2_Witness ==
    /\ PartialFailure
    /\ DOMAIN resp.body.members = Addrs
    /\ resp.body.members["a@x.com"].elems[1].n = 2000
    /\ query.op = "GetStatus"
    /\ query.email = "b@x.com"
    /\ query.status = 400
    /\ query.ok

\* The conditions under which a message is not fit to send.
ViolatesValidation(m) ==
    \/ Len(m.To) = 0
    \/ Len(m.To) > 255
    \/ m.Sender = ""
    \/ m.Subject = ""
    \/ (m.TextBody = "" /\ m.HTMLBody = "")

ValidationTexts ==
    {"at least one recipient required", "maximum 255 recipients allowed", "sender is required",
     "subject is required", "either text_body or html_body is required"}

\* C3: for every message that violates a Validate condition, Send fails at
\* once with a nil result and an error that wraps the violation, and issues
\* no HTTP request.
C3_InvalidMessageIsNotSent ==
    /\ ViolatesValidation(msg) => pc \notin {"inflight", "read"}
    /\ pc = "done" /\ ViolatesValidation(msg) =>
          /\ result = NilResponse
          /\ err.kind = "wrap"
          /\ err.msg = "message validation failed"
          /\ err.cause \in ValidationTexts
          /\ err.cause = Validate(msg)
          /\ requests = 0
          /\ resp = NoResp
          /\ decoded = "none"

C3_Witness ==
    /\ pc = "done"
    /\ Len(msg.To) = 1
    /\ msg.Sender # ""
    /\ msg.Subject = ""
    /\ err.cause = "subject is required"
    /\ requests = 0

\* C4 as claimed: if the signal fires at any point before the call completes,
\* Send fails with a cancellation or deadline error, returns no result and
\* processes no response.  (The signal fires only while pc is "idle",
\* "inflight" or "read".)  Stated for the calls the claim is about: the
\* message passes validation, the request can be built, and the network
\* itself does not fail.
C4_Original ==
    ( /\ pc = "done"
      /\ ctx # "live"
      /\ ~ViolatesValidation(msg)
      /\ ~NewRequestFails(client.baseURL \o "/send")
      /\ err.cause \notin {"connection refused", "unexpected EOF"} )
    => /\ err.kind = "wrap"
       /\ err.cause \in CtxCauses
       /\ result = NilResponse
       /\ decoded = "none"

\* C4, amended: if the signal has fired when Send dispatches the request of a
\* message that passed validation, Send fails with "request failed" wrapping
\* the context's error, returns no result and processes no response; and
\* whenever the transport reports the signal, while Send waits for the
\* response or reads the body, Send returns it wrapped, with no result and
\* with neither decoder run.
C4_CancellationReported ==
    [][ /\ ( /\ pc = "idle"
             /\ pc' \in {"inflight", "done"}
             /\ ctx # "live"
             /\ ~ViolatesValidation(msg)
             /\ ~NewRequestFails(client.baseURL \o "/send") )
           => /\ pc' = "done"
              /\ err' = Wrap("request failed", CtxErr(ctx))
              /\ result' = NilResponse
              /\ resp' = NoResp
              /\ decoded' = "none"
        /\ (pc' = "done" /\ err'.cause \in CtxCauses)
           => /\ ctx' # "live"
              /\ err'.cause = CtxErr(ctx')
              /\ err'.kind = "wrap"
              /\ err'.msg \in {"request failed", "failed to read response"}
              /\ result' = NilResponse
              /\ decoded' = "none"
      ]_vars

C4_Witness ==
    /\ pc = "done"
    /\ ctx = "canceled"
    /\ requests = 1
    /\ resp = NoResp
    /\ err = Wrap("request failed", "context canceled")

\* C5: every Send call issues at most one HTTP request, on every path: none
\* before validation or request creation fails, one on every other path.
C5_AtMostOneRequest ==
    /\ requests \in {0, 1}
    /\ pc \in {"idle", "literal"} => requests = 0
    /\ pc \in {"inflight", "read"} => requests = 1
    /\ pc = "done" =>
          requests = (IF err.msg \in {"message validation failed", "failed to create request"}
                      THEN 0 ELSE 1)

C5_Witness ==
    /\ pc = "done"
    /\ requests = 1
    /\ err = Wrap("request failed", "connection refused")

\* Send has returned after reading the body of a response with a status < 400.
SuccessStatusRead == BodyRead /\ resp.StatusCode < 400

UnmarshalError == {Wrap("failed to unmarshal response", cause) : cause \in {"syntax", "type"}}

\* The body is not a JSON object, or a value in it is not a 2-element array.
NotObjectOfPairs(b) ==
    \/ b.bk # "object"
    \/ \E key \in DOMAIN b.members :
          ~(b.members[key].k = "array" /\ Len(b.members[key].elems) = 2)

\* C6 as claimed: for a status < 400, Send fails with the wrapped unmarshal
\* error whenever the body is not a JSON object or a value in it is not a
\* 2-element array; on a successful decode StatusCode is the HTTP status.
C6_Original ==
    SuccessStatusRead =>
        /\ NotObjectOfPairs(resp.body) => (err \in UnmarshalError /\ result = NilResponse)
        /\ err = NilError => result.StatusCode = resp.StatusCode

\* The first two elements of an array hold a number no float64 holds.
HoldsOverNumber(v) ==
    v.k = "array" /\ \E i \in 1..2 : i <= Len(v.elems) /\ v.elems[i].k = "overnumber"

\* What encoding/json rejects: text that is no JSON, a value that is neither
\* an object nor null, a member that is neither an array nor null, a number
\* no float64 holds among the first two elements of a member.
Undecodable(b) ==
    \/ b.bk \notin {"object", "null"}
    \/ \E key \in DOMAIN b.members :
          \/ b.members[key].k \notin {"array", "null"}
          \/ HoldsOverNumber(b.members[key])

\* C6, amended: for a status < 400, Send fails with the wrapped unmarshal
\* error and a nil result exactly when the body is no valid JSON, is a JSON
\* value other than an object or null, or holds a member that is neither an
\* array nor null or that has, among its first two elements, a number no
\* float64 holds.  The body null decodes to an empty mapping, a null member to
\* a pair of nils, an array shorter than two is filled up with nil and one
\* longer than two is cut to its first two elements.  On a successful decode
\* StatusCode is the HTTP status.
C6_DecodeFailure ==
    SuccessStatusRead =>
        /\ Undecodable(resp.body) <=> err \in UnmarshalError
        /\ Undecodable(resp.body) => result = NilResponse
        /\ ~Undecodable(resp.body) =>
              /\ err = NilError
              /\ result.StatusCode = resp.StatusCode
              /\ DOMAIN result.Recipients = DOMAIN resp.body.members
              /\ \A key \in DOMAIN resp.body.members, i \in 1..2 :
                    (resp.body.members[key].k = "null" \/ i > Len(resp.body.members[key].elems))
                        => result.Recipients[key][i] = GoNil

C6_Witness ==
    /\ SuccessStatusRead
    /\ resp.StatusCode = 200
    /\ "a@x.com" \in DOMAIN resp.body.members
    /\ resp.body.members["a@x.com"].k = "array"
    /\ Len(resp.body.members["a@x.com"].elems) = 1
    /\ err = NilError
    /\ result.Recipients["a@x.com"][1] = GoVal("float64", 2000, "")
    /\ result.Recipients["a@x.com"][2] = GoNil

\* The Go value g is the JSON value tok as it arrived.
HoldsRaw(g, tok) ==
    CASE tok.k = "number" -> g.k = "float64" /\ g.n = tok.n
      [] tok.k = "bignumber" -> g.k = "float64big"
      [] tok.k = "overnumber" -> g.k \in {"float64", "float64big"}
      [] tok.k = "string" -> g.k = "string" /\ g.s = tok.s
      [] tok.k = "true" -> g.k = "bool"
      [] tok.k = "null" -> g.k = "nil"
      [] tok.k = "array" -> g.k = "slice"
      [] OTHER -> g.k = "map"

\* The body is a JSON object of 2-element arrays.
ObjectOfPairs(b) == b.bk = "object" /\ ~NotObjectOfPairs(b)

DecodedAsArrived ==
    /\ err = NilError
    /\ result.StatusCode = resp.StatusCode
    /\ DOMAIN result.Recipients = DOMAIN resp.body.members
    /\ \A key \in DOMAIN resp.body.members, i \in 1..2 :
          HoldsRaw(result.Recipients[key][i], resp.body.members[key].elems[i])

\* C7 as claimed: for a status < 400 and a body that is a JSON object of
\* 2-element arrays, decoding succeeds whatever the two elements are.
C7_Original == (SuccessStatusRead /\ ObjectOfPairs(resp.body)) => DecodedAsArrived

\* C7, amended: for a status < 400 and a body that is a JSON object of
\* 2-element arrays none of which holds a number beyond the range of a
\* float64, decoding succeeds whatever the types of the two elements: the
\* mapping has exactly the body's keys, each entry holds the two values as
\* encoding/json stores them in an interface{}, and {} yields an empty mapping
\* with StatusCode taken from the HTTP status.
C7_LooseTypesDecode ==
    /\ ( /\ SuccessStatusRead
         /\ ObjectOfPairs(resp.body)
         /\ \A key \in DOMAIN resp.body.members : ~HoldsOverNumber(resp.body.members[key]) )
       => DecodedAsArrived
    /\ (SuccessStatusRead /\ resp.body.bk = "object" /\ DOMAIN resp.body.members = {})
       => (err = NilError /\ result = SendResponse(resp.StatusCode, <<>>))

C7_Witness ==
    /\ SuccessStatusRead
    /\ DOMAIN resp.body.members = {"a@x.com"}
    /\ resp.body.members["a@x.com"].k = "array"
    /\ Len(resp.body.members["a@x.com"].elems) = 2
    /\ resp.body.members["a@x.com"].elems[1].k = "string"
    /\ resp.body.members["a@x.com"].elems[2].k = "number"
    /\ err = NilError
    /\ result.Recipients["a@x.com"] = <<GoVal("string", 0, "OK"), GoVal("float64", 2000, "")>>

\* The integer i is n tenths truncated toward zero.
IsTruncation(i, n) ==
    /\ n >= 0 => (10 * i <= n /\ n < 10 * i + 10)
    /\ n < 0 => (10 * i >= n /\ n > 10 * i - 10)

\* The first element stored for an address; the address is in the mapping.
First(email) == result.Recipients[email][1]

Second(email) == result.Recipients[email][2]

\* C8 as claimed: GetStatus returns (0, false) when the address is absent or
\* the stored first element is not numeric; otherwise (n, true) with n the
\* stored number truncated toward zero.  Stated for the calls made on a
\* result that Send returned.  (No int is the truncation of a float64 beyond
\* the range of int.)
C8_Original ==
    (pc = "done" /\ HasResponse /\ query.op = "GetStatus") =>
        IF query.email \notin DOMAIN result.Recipients
           \/ First(query.email).k \notin {"float64", "float64big", "int"}
        THEN query.status = 0 /\ ~query.ok
        ELSE /\ query.ok
             /\ First(query.email).k # "float64big"
             /\ IsTruncation(query.status, First(query.email).n)

\* C8, amended: GetStatus returns (0, false) when the address is absent or
\* the stored first element is not a float64 (a number stored as a Go integer
\* included); for a float64 it returns (n, true), where n is the value
\* truncated toward zero (never rounded) when the truncated value is in the
\* range of int, and a value the implementation chooses when it is not.
C8_GetStatusTruncates ==
    HasResponse =>
        /\ \A email \in QueryAddrs : \A r \in GetStatus(result, email) :
              IF email \notin DOMAIN result.Recipients
                 \/ First(email).k \notin {"float64", "float64big"}
              THEN r = [status |-> 0, ok |-> FALSE]
              ELSE /\ r.ok
                   /\ First(email).k = "float64" => IsTruncation(r.status, First(email).n)
        /\ query.op = "GetStatus" =>
              IF query.email \notin DOMAIN result.Recipients
                 \/ First(query.email).k \notin {"float64", "float64big"}
              THEN query.status = 0 /\ ~query.ok
              ELSE /\ query.ok
                   /\ First(query.email).k = "float64" =>
                         IsTruncation(query.status, First(query.email).n)

C8_Witness ==
    /\ pc = "done"
    /\ HasResponse
    /\ query.op = "GetStatus"
    /\ query.email = "a@x.com"
    /\ "a@x.com" \in DOMAIN result.Recipients
    /\ First("a@x.com") = GoVal("float64", 5509, "")
    /\ query.status = 550
    /\ query.ok

\* C9: GetMessageID returns ("", false) when the address is absent or the
\* stored second element is not a string; otherwise (the stored string, true).
C9_GetMessageID ==
    HasResponse =>
        /\ \A email \in QueryAddrs :
              GetMessageID(result, email) =
                  IF email \in DOMAIN result.Recipients /\ Second(email).k = "string"
                  THEN [id |-> Second(email).s, ok |-> TRUE]
                  ELSE [id |-> "", ok |-> FALSE]
        /\ query.op = "GetMessageID" =>
              IF query.email \in DOMAIN result.Recipients /\ Second(query.email).k = "string"
              THEN query.id = Second(query.email).s /\ query.ok
              ELSE query.id = "" /\ ~query.ok

C9_Witness ==
    /\ pc = "done"
    /\ HasResponse
    /\ query.op = "GetMessageID"
    /\ query.email = "a@x.com"
    /\ "a@x.com" \in DOMAIN result.Recipients
    /\ First("a@x.com").k = "string"
    /\ Second("a@x.com").k = "float64"
    /\ query.id = ""
    /\ ~query.ok

\* C10: IsSuccess() is true exactly when StatusCode is 200 (201, 204 and every
\* other code give false), whatever the per-recipient mapping holds.
C10_IsSuccessOnly200 ==
    HasResponse =>
        /\ IsSuccess(result) <=> (result.StatusCode = 200)
        /\ query.op = "IsSuccess" => (query.ok <=> (result.StatusCode = 200))

C10_Witness ==
    /\ HasResponse
    /\ query.op = "IsSuccess"
    /\ result.StatusCode = 204
    /\ result.Recipients # <<>>
    /\ ~query.ok

\* A call of parseErrorResponse that has returned: by Send (status, body of
\* the response, the error Send returned) or directly.
ParseCalls ==
    (IF pc = "done" /\ decoded = "error"
     THEN {[statusCode |-> resp.StatusCode, body |-> resp.body, err |-> err]} ELSE {})
    \cup (IF query.op = "parseErrorResponse"
          THEN {[statusCode |-> query.statusCode, body |-> query.body, err |-> query.err]}
          ELSE {})

\* The body is the error object with every member of the type its field has.
ParsesAsErrorObject(body) ==
    \/ body.bk = "null"
    \/ /\ body.bk = "object"
       /\ \A key \in DOMAIN body.members \cap {"error", "validation_errors", "json_path", "sender"} :
              body.members[key].k \in {"string", "null"}
       /\ "smtp_code" \in DOMAIN body.members =>
              \/ body.members["smtp_code"].k = "null"
              \/ body.members["smtp_code"].k = "number" /\ body.members["smtp_code"].n % 10 = 0

\* C11 as claimed: whenever the error body fails to parse as the error shape
\* (invalid or truncated JSON, JSON that is no object, a member of the wrong
\* type), parseErrorResponse returns an APIError whose Message is the raw
\* body, whose StatusCode is the argument and whose other fields are empty
\* or zero.
C11_FallbackIsClean ==
    \A call \in ParseCalls :
        ~ParsesAsErrorObject(call.body) =>
            /\ call.err.kind = "api"
            /\ call.err.api = [StatusCode |-> call.statusCode, Message |-> call.body.text,
                               ValidationErrors |-> "", JSONPath |-> "", Sender |-> "",
                               SMTPCode |-> 0]

\* The string a member of the error object holds ("" when absent or null).
MemberString(body, key) ==
    IF body.bk = "object" /\ key \in DOMAIN body.members /\ body.members[key].k = "string"
    THEN body.members[key].s ELSE ""

\* The integer a member of the error object holds (0 when absent or null).
MemberInt(body, key) ==
    IF body.bk = "object" /\ key \in DOMAIN body.members /\ body.members[key].k = "number"
    THEN body.members[key].n \div 10 ELSE 0

\* C12: parseErrorResponse returns an APIError for every status code and
\* every body; its StatusCode is the status argument whatever the body holds;
\* the empty body gives an empty Message; and when the body parses, error,
\* validation_errors, json_path, sender and smtp_code fill their fields and
\* the fields of absent members stay empty or zero.
C12_ParseIsTotal ==
    \A call \in ParseCalls :
        /\ call.err.kind = "api"
        /\ call.err.api.StatusCode = call.statusCode
        /\ call.body.text = "" => call.err.api.Message = ""
        /\ ParsesAsErrorObject(call.body) =>
              /\ call.err.api.Message = MemberString(call.body, "error")
              /\ call.err.api.ValidationErrors = MemberString(call.body, "validation_errors")
              /\ call.err.api.JSONPath = MemberString(call.body, "json_path")
              /\ call.err.api.Sender = MemberString(call.body, "sender")
              /\ call.err.api.SMTPCode = MemberInt(call.body, "smtp_code")

C12_Witness ==
    /\ query.op = "parseErrorResponse"
    /\ query.statusCode = 404
    /\ query.body.bk = "object"
    /\ DOMAIN query.body.members = {"error", "StatusCode"}
    /\ query.body.members["StatusCode"].n = 2000
    /\ query.err.api.StatusCode = 404
    /\ query.err.api.Message = "Invalid request"

\* C13: Error() returns exactly "sendamatic api error (status <code>):
\* <validationErrors> (path: <jsonPath>)" when ValidationErrors is not empty
\* and exactly "sendamatic api error (status <code>): <message>" otherwise;
\* errors that differ only in SMTPCode or Sender format alike.
C13_ErrorText ==
    query.op = "Error" =>
        /\ query.e.ValidationErrors # "" =>
              query.text = "sendamatic api error (status " \o ToString(query.e.StatusCode)
                           \o "): " \o query.e.ValidationErrors
                           \o " (path: " \o query.e.JSONPath \o ")"
        /\ query.e.ValidationErrors = "" =>
              query.text = "sendamatic api error (status " \o ToString(query.e.StatusCode)
                           \o "): " \o query.e.Message
        /\ \A code \in {0, 550}, sender \in {"", "test@example.com"} :
              Error([query.e EXCEPT !.SMTPCode = code, !.Sender = sender]) = query.text

C13_Witness ==
    /\ query.op = "Error"
    /\ query.e.SMTPCode = 550
    /\ query.e.Sender = "test@example.com"
    /\ query.e.ValidationErrors = ""
    /\ query.text = "sendamatic api error (status 500): SMTP error"

\* What Validate returned for msg in this state ("" for nil): to a caller
\* who called it directly, or to Send, which reports it wrapped.
ValidateReturns ==
    (IF query.op = "Validate" THEN {query.text} ELSE {})
    \cup (IF pc \in {"inflight", "read"} THEN {""} ELSE {})
    \cup (IF pc = "done"
          THEN {IF err.msg = "message validation failed" THEN err.cause ELSE ""} ELSE {})

\* The conditions of Validate, numbered in the order of the claim, that m violates.
Violated(m) ==
    {i \in 1..5 :
        \/ i = 1 /\ Len(m.To) = 0
        \/ i = 2 /\ Len(m.To) > 255
        \/ i = 3 /\ m.Sender = ""
        \/ i = 4 /\ m.Subject = ""
        \/ i = 5 /\ m.TextBody = "" /\ m.HTMLBody = ""}

\* The condition a violation text names.
ConditionOf(text) ==
    CASE text = "at least one recipient required" -> 1
      [] text = "maximum 255 recipients allowed" -> 2
      [] text = "sender is required" -> 3
      [] text = "subject is required" -> 4
      [] text = "either text_body or html_body is required" -> 5
      [] OTHER -> 0

\* C14: Validate reports the first violated condition in the order (1) to
\* empty, (2) more than 255 entries in to, (3) sender empty, (4) subject
\* empty, (5) both bodies empty, and reports no violation exactly when
\* 1 <= len(to) <= 255, sender and subject are not empty and one of the
\* bodies is not empty.
C14_ValidateOrder ==
    \A text \in ValidateReturns :
        /\ text = "" <=> ( /\ 1 <= Len(msg.To) /\ Len(msg.To) <= 255
                           /\ msg.Sender # "" /\ msg.Subject # ""
                           /\ (msg.TextBody # "" \/ msg.HTMLBody # "") )
        /\ text = "" <=> Violated(msg) = {}
        /\ text # "" =>
              /\ ConditionOf(text) \in Violated(msg)
              /\ \A i \in Violated(msg) : ConditionOf(text) <= i

C14_Witness ==
    /\ query.op = "Validate"
    /\ Len(msg.To) = 256
    /\ msg.Sender = ""
    /\ msg.Subject = ""
    /\ query.text = "maximum 255 recipients allowed"

\* The texts the claim gives for the conditions.
ClaimedTexts ==
    <<"at least one recipient required", "maximum 255 recipients allowed", "sender is required",
      "subject is required", "either text body or html body is required">>

\* The first condition m violates; m violates one.
FirstViolated(m) == CHOOSE i \in Violated(m) : \A j \in Violated(m) : i <= j

\* C15 as claimed: the text Validate returns for a violated condition is
\* "at least one recipient required", "maximum 255 recipients allowed",
\* "sender is required", "subject is required" or, when both bodies are
\* empty, "either text body or html body is required".
C15_Original ==
    \A text \in ValidateReturns :
        Violated(msg) # {} => text = ClaimedTexts[FirstViolated(msg)]

\* C15, amended: as claimed, except that the text for both bodies empty is
\* "either text_body or html_body is required".
C15_ValidateTexts ==
    \A text \in ValidateReturns :
        Violated(msg) # {} =>
            text = <<"at least one recipient required", "maximum 255 recipients allowed",
                     "sender is required", "subject is required",
                     "either text_body or html_body is required">>[FirstViolated(msg)]

C15_Witness ==
    /\ query.op = "Validate"
    /\ Len(msg.To) = 1
    /\ msg.Sender # ""
    /\ msg.Subject # ""
    /\ msg.TextBody = ""
    /\ msg.HTMLBody = ""
    /\ query.text = "either text_body or html_body is required"

\* C16: every request Send issues is a POST to <baseURL>/send with
\* Content-Type: application/json and an x-api-key header equal to
\* userID-password as passed to NewClient; the client's key is that value in
\* every state, whatever options were applied.
C16_RequestShape ==
    /\ client.apiKey = "user" \o "-" \o "pass"
    /\ requests = 0 <=> req = NoReq
    /\ requests > 0 =>
          /\ req.Method = "POST"
          /\ req.URL = client.baseURL \o "/send"
          /\ HeaderGet(req.Header, "Content-Type") = "application/json"
          /\ HeaderGet(req.Header, "x-api-key") = "user-pass"
          /\ DOMAIN req.Header = {"Content-Type", "X-Api-Key"}

C16_Witness ==
    /\ pc = "done"
    /\ requests = 1
    /\ client.baseURL = "http://127.0.0.1:8080"
    /\ req.URL = "http://127.0.0.1:8080/send"
    /\ req.Header["X-Api-Key"] = "user-pass"
    /\ err = NilError

\* What a Send call that runs alone returns for message m on client c when
\* the transport gives it what call holds: no response, a response whose
\* body cannot be read, or a response and its body.
RanAlone(m, c, call) ==
    IF Violated(m) # {}
    THEN call.result = NilResponse /\ call.err.msg = "message validation failed"
         /\ call.requests = 0 /\ call.resp = NoResp
    ELSE IF NewRequestFails(c.baseURL \o "/send")
    THEN call.result = NilResponse /\ call.err.msg = "failed to create request"
         /\ call.requests = 0 /\ call.resp = NoResp
    ELSE /\ call.requests = 1
         /\ call.req = NewRequest(c, m)
         /\ IF call.resp = NoResp
            THEN call.result = NilResponse /\ call.err.msg = "request failed"
            ELSE IF call.resp.body = NoBody
            THEN call.result = NilResponse /\ call.err.msg = "failed to read response"
            ELSE IF call.resp.StatusCode >= 400
            THEN /\ call.result = NilResponse
                 /\ call.err = APIErr(parseErrorResponse(call.resp.StatusCode, call.resp.body))
            ELSE IF UnmarshalRecipients(call.resp.body).err # ""
            THEN call.result = NilResponse /\ call.err.msg = "failed to unmarshal response"
            ELSE /\ call.err = NilError
                 /\ call.result = SendResponse(call.resp.StatusCode,
                                                UnmarshalRecipients(call.resp.body).recipients)

\* C17: in every interleaving of concurrent Send calls on one Client, no
\* step of a call writes a field of the Client or of the Message, a step of
\* one call changes nothing another call holds, and a call that returns
\* returns what it would return alone for the response it was given.
C17_CallsAreIndependent ==
    [][ /\ client' = client
        /\ msg' = msg
        /\ \A p \in Calls : calls'[p] # calls[p] =>
              \A q \in Calls \ {p} : calls'[q] = calls[q]
        /\ \A p \in Calls : calls'[p].pc = "done" => RanAlone(msg', client', calls'[p])
      ]_vars

C17_Witness ==
    /\ calls # NoCalls
    /\ calls[1].pc = "done"
    /\ calls[2].pc = "done"
    /\ calls[1].err = NilError
    /\ calls[1].result.StatusCode = 200
    /\ calls[2].err.kind = "api"
    /\ calls[2].resp.StatusCode = 400
    /\ calls[1].req = calls[2].req

\* The phase an error of Send names: by its type for an *APIError, by the
\* context it was wrapped with otherwise.
PhaseOf(e) ==
    CASE e.kind = "api" -> "api rejection"
      [] e.kind = "wrap" /\ e.msg = "message validation failed" -> "validation"
      [] e.kind = "wrap" /\ e.msg = "failed to marshal message" -> "serialization"
      [] e.kind = "wrap" /\ e.msg = "failed to create request" -> "request creation"
      [] e.kind = "wrap" /\ e.msg = "request failed" -> "transport"
      [] e.kind = "wrap" /\ e.msg = "failed to read response" -> "body read"
      [] e.kind = "wrap" /\ e.msg = "failed to unmarshal response" -> "response decode"
      [] OTHER -> "none"

\* The phase in which the Send call that has returned an error failed.
FailedPhase ==
    IF Violated(msg) # {} THEN "validation"
    ELSE IF NewRequestFails(client.baseURL \o "/send") THEN "request creation"
    ELSE IF resp = NoResp THEN "transport"
    ELSE IF resp.body = NoBody THEN "body read"
    ELSE IF resp.StatusCode >= 400 THEN "api rejection"
    ELSE "response decode"

\* C18: every error Send returns names exactly the phase that failed, by a
\* type or a context that differs from phase to phase: an *APIError is
\* returned exactly for a status >= 400 whose body was read, a decode error
\* on a success status is a wrapped error, and every wrapped error still
\* holds its cause.
C18_ErrorNamesPhase ==
    (pc = "done" /\ err # NilError) =>
        /\ PhaseOf(err) = FailedPhase
        /\ err.kind = "api" <=> (resp.body # NoBody /\ resp.StatusCode >= 400)
        /\ err.kind = "api" => err.api.StatusCode = resp.StatusCode
        /\ err.kind # "api" =>
              /\ err.kind = "wrap"
              /\ err.cause # ""
              /\ PhaseOf(err) = "validation" => err.cause \in ValidationTexts
              /\ PhaseOf(err) = "transport" =>
                    err.cause \in {"connection refused"} \cup CtxCauses
              /\ PhaseOf(err) = "body read" => err.cause \in {"unexpected EOF"} \cup CtxCauses
              /\ PhaseOf(err) = "response decode" => err.cause \in {"syntax", "type"}

C18_Witness ==
    /\ pc = "done"
    /\ resp.StatusCode = 200
    /\ resp.body.text = "not valid json"
    /\ err = [kind |-> "wrap", msg |-> "failed to unmarshal response", cause |-> "syntax",
              api |-> NilAPIError]

\* C19 as claimed: if the signal fires while Send waits for the response
\* headers or reads the body, Send returns with an error.  (The part a
\* finite run refutes: a Send that returns after the signal has fired while
\* it was waiting returns an error.)
C19_Original ==
    [][(ctx # "live" /\ pc \in {"inflight", "read"} /\ pc' = "done") => err' # NilError]_vars

\* C19, amended: if the signal fires while Send waits for the response
\* headers or reads the body, Send does not stay blocked but eventually
\* returns: the context's error, wrapped, with no result, when the transport
\* reports the signal, and what the response decodes to when the response
\* and its body arrive all the same; and when Send has returned, the body of
\* a response it received has been closed once.
C19_SendReturns ==
    /\ (ctx # "live" /\ pc \in {"inflight", "read"}) ~> (pc = "done")
    /\ [](pc = "done" => closes = (IF resp = NoResp THEN 0 ELSE 1))
    /\ []((pc = "done" /\ err.cause \in CtxCauses) => (ctx # "live" /\ result = NilResponse))

C19_Witness ==
    /\ pc = "done"
    /\ ctx = "deadline"
    /\ resp # NoResp
    /\ closes = 1
    /\ err = [kind |-> "wrap", msg |-> "failed to read response",
              cause |-> "context deadline exceeded", api |-> NilAPIError]

\* The place of the last option op in opts (0 when there is none), among
\* the first n options.
LastBefore(opts, op, n) ==
    LET places == {i \in 1..n : opts[i].op = op}
    IN IF places = {} THEN 0 ELSE CHOOSE i \in places : \A j \in places : j <= i

\* C20 as claimed: the options are applied in order on the defaults and the
\* last one wins: the base URL is the argument of the last WithBaseURL, the
\* HTTP client is the argument of the last WithHTTPClient, and a
\* WithHTTPClient applied after a WithTimeout discards that timeout: the
\* timeout is the one the supplied client was given to NewClient with.
C20_Original ==
    query.op = "NewClient" =>
        LET opts == query.opts
            b == LastBefore(opts, "WithBaseURL", Len(opts))
            h == LastBefore(opts, "WithHTTPClient", Len(opts))
            t == LastBefore(opts, "WithTimeout", Len(opts))
        IN /\ client.baseURL = (IF b = 0 THEN "https://send.api.sendamatic.net" ELSE opts[b].url)
           /\ client.httpClient.id = (IF h = 0 THEN "default" ELSE opts[h].httpClient)
           /\ (h = 0 /\ t = 0) => client.httpClient.Timeout = 30
           /\ t > h => client.httpClient.Timeout = opts[t].timeout
           /\ h > t => client.httpClient.Timeout = SuppliedClients[opts[h].httpClient].Timeout

\* The http.Client that is the Client's when option n of opts is applied.
CurrentAt(opts, n) ==
    LET h == LastBefore(opts, "WithHTTPClient", n - 1)
    IN IF h = 0 THEN "default" ELSE opts[h].httpClient

\* C20, amended: as claimed, except that the timeout of the final HTTP
\* client is the argument of the last WithTimeout that was applied while
\* that same http.Client was the Client's, and its own timeout (30 s for the
\* default client) when there is none: a WithHTTPClient applied after a
\* WithTimeout discards that timeout unless the WithTimeout was applied to
\* the very client it supplies.
C20_LastOptionWins ==
    query.op = "NewClient" =>
        LET opts == query.opts
            b == LastBefore(opts, "WithBaseURL", Len(opts))
            h == LastBefore(opts, "WithHTTPClient", Len(opts))
            final == IF h = 0 THEN "default" ELSE opts[h].httpClient
            writes == {i \in 1..Len(opts) :
                          opts[i].op = "WithTimeout" /\ CurrentAt(opts, i) = final}
        IN /\ client.apiKey = "user-pass"
           /\ client.baseURL = (IF b = 0 THEN "https://send.api.sendamatic.net" ELSE opts[b].url)
           /\ client.httpClient.id = final
           /\ client.httpClient.Timeout =
                 (IF writes # {}
                  THEN opts[CHOOSE i \in writes : \A j \in writes : j <= i].timeout
                  ELSE IF final = "default" THEN 30
                  ELSE SuppliedClients[final].Timeout)

C20_Witness ==
    /\ query.op = "NewClient"
    /\ Len(query.opts) = 2
    /\ query.opts[1].op = "WithTimeout"
    /\ query.opts[2].op = "WithHTTPClient"
    /\ query.opts[2].httpClient = "c60"
    /\ client.httpClient = [id |-> "c60", Timeout |-> 60]

\* The field each builder method writes.
FieldOf ==
    [AddTo |-> "To", AddToLoop |-> "To", AddCC |-> "CC", AddCCLoop |-> "CC",
     AddBCC |-> "BCC", SetSender |-> "Sender", SetSubject |-> "Subject",
     SetTextBody |-> "TextBody", SetHTMLBody |-> "HTMLBody",
     AddHeader |-> "Headers", AttachFile |-> "Attachments"]

AddOps == {"AddTo", "AddCC", "AddBCC", "AddHeader", "AttachFile"}
LoopOps == {"AddToLoop", "AddCCLoop"}
SetOps == {"SetSender", "SetSubject", "SetTextBody", "SetHTMLBody"}

\* The last entry of the list is the one the call was made with.
IsEntryOf(entry, q) ==
    IF q.op = "AddHeader" THEN entry.Header = q.args[1] /\ entry.Value = q.args[2]
    ELSE IF q.op = "AttachFile"
    THEN entry.Filename = q.args[1] /\ entry.MimeType = q.args[2]
    ELSE entry = q.args[1]

\* The step is a call of a builder method.
BuilderCalled ==
    /\ query'.op \in DOMAIN FieldOf
    /\ <<msg, query>>' # <<msg, query>>

\* C21: every builder call returns the message it was called on and changes
\* only its own field: an Add* call appends exactly one entry at the end,
\* whatever the entry is (the older entries keep their order, duplicates and
\* empty strings included), a Set* call overwrites the field with its
\* argument, and every other field keeps its value.
C21_BuilderFrame ==
    [][BuilderCalled =>
        LET f == FieldOf[query'.op]
            old == msg[f]
            new == msg'[f]
        IN /\ query'.ret = msg'
           /\ \A g \in DOMAIN msg \ {f} : msg'[g] = msg[g]
           /\ query'.op \in AddOps =>
                /\ Len(new) = Len(old) + 1
                /\ SubSeq(new, 1, Len(old)) = old
                /\ IsEntryOf(new[Len(new)], query')
           /\ query'.op \in LoopOps =>
                /\ Len(new) = Len(old) + query'.args[1]
                /\ \A i \in 1..Len(new) : new[i] = new[1]
           /\ query'.op \in SetOps => new = query'.args[1]]_vars

\* A message built by a chain of calls, with a duplicate recipient, right
\* after a SetSubject call that overwrote the subject with "".
C21_Witness ==
    /\ query.op = "SetSubject"
    /\ query.args = <<"">>
    /\ msg.To = <<"a@x.com", "a@x.com">>
    /\ msg.BCC = <<"b@x.com">>
    /\ msg.Sender = "s@x.com"
    /\ Len(msg.Headers) = 2
    /\ Len(msg.Attachments) = 1
    /\ query.ret = msg

\* The last attachment of a message.
LastAttachment(m) == m.Attachments[Len(m.Attachments)]

\* The step is an attachment call that returned without error (and not the
\* caller overwriting its slice later).
Attached(op) ==
    /\ query'.op = op
    /\ query' # query
    /\ query'.data = query'.original
    /\ op = "AttachFileFromPath" => query'.err = ""

\* C22: AttachFile appends exactly one attachment, with the given filename
\* and MIME type and a payload whose base64 decoding is exactly the bytes
\* passed (the empty slice included); the payload stays that whatever the
\* caller does to its slice afterwards, and it is the payload serialized.
C22_AttachRoundTrip ==
    /\ [][Attached("AttachFile") =>
            /\ Len(msg'.Attachments) = Len(msg.Attachments) + 1
            /\ SubSeq(msg'.Attachments, 1, Len(msg.Attachments)) = msg.Attachments]_vars
    /\ [](query.op = "AttachFile" =>
            /\ LastAttachment(msg).Filename = query.args[1]
            /\ LastAttachment(msg).MimeType = query.args[2]
            /\ DecodeString(LastAttachment(msg).Data) = [ok |-> TRUE, bytes |-> query.original])
    /\ [](query.op = "Marshal" /\ query.attached = "AttachFile" =>
            /\ Len(query.json) = Len(msg.Attachments)
            /\ query.json[Len(query.json)].filename = query.args[1]
            /\ query.json[Len(query.json)].mimetype = query.args[2]
            /\ DecodeString(query.json[Len(query.json)].data)
                 = [ok |-> TRUE, bytes |-> query.original])

\* A slice of three bytes was attached to a message that had an attachment,
\* the caller overwrote the slice, and the message was serialized.
C22_Witness ==
    /\ query.op = "Marshal"
    /\ query.attached = "AttachFile"
    /\ query.original = <<255, 0, 77>>
    /\ query.data = <<0, 1, 78>>
    /\ Len(msg.Attachments) = 2
    /\ query.json[2].data = "/wBN"

\* The positions of the separators "/" and "\" in a path.
Separators(path) == {i \in 1..Len(path) : SubSeq(path, i, i) \in {"/", "\\"}}

\* The part of a path after its last separator, the whole path without one.
AfterLastSeparator(path) ==
    IF Separators(path) = {} THEN path
    ELSE LET last == CHOOSE i \in Separators(path) : \A j \in Separators(path) : j <= i
         IN SubSeq(path, last + 1, Len(path))

\* C23: AttachFileFromPath of a readable file appends one attachment named
\* by the part of the path after its last "/" or "\" (the whole path when it
\* has neither) holding the file's bytes; of an unreadable one it returns the
\* error of the filesystem and leaves the attachments and every other field
\* of the message as they were.
C23_AttachFromPath ==
    [][query'.op = "AttachFileFromPath" /\ query' # query =>
        LET path == query'.args[1]
        IN /\ query'.err = ReadFile(path).err
           /\ (query'.err = "") = (path \in DOMAIN Files)
           /\ query'.err # "" => msg' = msg
           /\ query'.err = "" =>
                /\ msg' = [msg EXCEPT !.Attachments = Append(@, LastAttachment(msg'))]
                /\ LastAttachment(msg').Filename = AfterLastSeparator(path)
                /\ LastAttachment(msg').MimeType = query'.args[2]
                /\ DecodeString(LastAttachment(msg').Data)
                     = [ok |-> TRUE, bytes |-> Files[path]]]_vars

\* A file was attached from a path with both separators, "\" the last one,
\* and then a path that is not a file was tried: the error came back and the
\* attachment of the first call is still the only one.
C23_Witness ==
    /\ query.op = "AttachFileFromPath"
    /\ query.args[1] = "missing/none.txt"
    /\ query.err = "open missing/none.txt: no such file or directory"
    /\ Len(msg.Attachments) = 1
    /\ msg.Attachments[1].Filename = "c.txt"
    /\ msg.Attachments[1].Data = "TQ=="

\* Send returned after the read of the response body failed.
ReadFailed == pc = "done" /\ resp # NoResp /\ resp.body = NoBody

\* C24: the body is read before the status is looked at: when the read fails
\* Send returns a "failed to read response" error and no result, whatever
\* the status, and no decoder has run; a decoder runs only on a body that
\* was read.
C24_ReadBeforeStatus ==
    /\ ReadFailed =>
         /\ err.kind = "wrap"
         /\ err.msg = "failed to read response"
         /\ err.cause \in ReadCauses(ctx)
         /\ result = NilResponse
         /\ decoded = "none"
    /\ decoded # "none" => resp.body # NoBody

\* The read of the body of a 422 response failed.
C24_Witness ==
    /\ ReadFailed
    /\ resp.StatusCode = 422
    /\ err.msg = "failed to read response"
    /\ closes = 1

\* C25: Send returns either a result or an error, never both and never
\* neither; a result carries the status received, which is below 400, and
\* an *APIError carries a status of 400 or more.
C25_ResultXorError ==
    pc = "done" =>
        /\ (result = NilResponse) # (err = NilError)
        /\ result # NilResponse =>
             /\ result.StatusCode = resp.StatusCode
             /\ result.StatusCode < 400
        /\ err.kind = "api" =>
             /\ err.api.StatusCode = resp.StatusCode
             /\ err.api.StatusCode >= 400

\* Send returned an *APIError for a 400 response whose body names another
\* status.
C25_Witness ==
    /\ pc = "done"
    /\ result = NilResponse
    /\ err.kind = "api"
    /\ err.api.StatusCode = 400
    /\ resp.body.text = "{\"error\":\"Invalid request\",\"StatusCode\":200}"

\* Send returned after reading a body the response decoder accepts, under a
\* status below 400.
DecodableSuccess ==
    /\ pc = "done"
    /\ resp.body # NoBody
    /\ resp.StatusCode < 400
    /\ UnmarshalRecipients(resp.body).err = ""

\* C26: a nil error does not mean IsSuccess(): for every status below 400
\* whose body decodes Send returns a result and no error, and IsSuccess() of
\* a result returned by Send holds exactly when the status received was 200.
C26_NilErrorIsNotSuccess ==
    /\ DecodableSuccess => result # NilResponse /\ err = NilError
    /\ pc = "done" /\ result # NilResponse => (IsSuccess(result) <=> resp.StatusCode = 200)

\* Send returned a result and no error for a 201 response: IsSuccess() is
\* false.
C26_Witness ==
    /\ DecodableSuccess
    /\ resp.StatusCode = 201
    /\ err = NilError
    /\ result.StatusCode = 201
    /\ ~IsSuccess(result)

\* C27: once the HTTP client has returned a response, Send closes its body
\* exactly once by the time it returns, on every path; it closes nothing
\* before it returns, and nothing at all when the HTTP client returned an
\* error or was never called.
C27_BodyClosedOnce ==
    /\ pc = "done" /\ resp # NoResp => closes = 1
    /\ resp = NoResp => closes = 0
    /\ pc \in {"idle", "inflight", "read"} => closes = 0

\* The read of the body failed and Send returned: the body is closed.
C27_Witness ==
    /\ ReadFailed
    /\ err.msg = "failed to read response"
    /\ closes = 1
    /\ resp.StatusCode = 200

\* The WithTimeout options of opts applied while the http.Client c was the
\* Client's, that is after a WithHTTPClient(c) with no other WithHTTPClient
\* in between.
TimeoutsOn(opts, c) ==
    {i \in 1..Len(opts) : opts[i].op = "WithTimeout" /\ CurrentAt(opts, i) = c}

\* C28: WithTimeout writes the Timeout of the http.Client the Client holds
\* when the option is applied.  Applied after WithHTTPClient(c) it changes
\* the caller's object c, and a Client built earlier that shares c sees the
\* new timeout; applied before WithHTTPClient(c) it changes the default
\* client only, and c keeps its timeout.
C28_TimeoutWritesThrough ==
    query.op = "NewClient" =>
        /\ \A c \in DOMAIN SuppliedClients :
              query.objects[c].Timeout =
                 (IF TimeoutsOn(query.opts, c) = {} THEN SuppliedClients[c].Timeout
                  ELSE query.opts[CHOOSE i \in TimeoutsOn(query.opts, c) :
                                     \A j \in TimeoutsOn(query.opts, c) : j <= i].timeout)
        /\ client.httpClient.Timeout = query.objects[client.httpClient.id].Timeout
        /\ query.built.httpClient.id \in DOMAIN SuppliedClients =>
              query.built.httpClient.Timeout = query.objects[query.built.httpClient.id].Timeout

\* NewClient(WithHTTPClient(c45), WithTimeout(10), WithHTTPClient(c60)): c45
\* now has the timeout 10, as the earlier Client that holds c45 sees, and
\* c60, supplied after the WithTimeout, keeps 60.
C28_Witness ==
    /\ query.op = "NewClient"
    /\ Len(query.opts) = 3
    /\ query.opts[1] = Opt("WithHTTPClient", "", 0, "c45")
    /\ query.opts[2] = Opt("WithTimeout", "", 10, "")
    /\ query.opts[3] = Opt("WithHTTPClient", "", 0, "c60")
    /\ client.httpClient = [id |-> "c45", Timeout |-> 10]
    /\ query.built.httpClient = [id |-> "c60", Timeout |-> 60]
    /\ query.objects["c45"].Timeout = 10

\* A message with what the claim says Validate inspects, and nothing else:
\* as many to entries as m has (their contents replaced), the sender, the
\* subject and the two bodies of m; no cc, bcc, headers or attachments.
Inspected(m) ==
    [NewMessage EXCEPT !.To = [i \in 1..Len(m.To) |-> "r@x.com"],
                       !.Sender = m.Sender, !.Subject = m.Subject,
                       !.TextBody = m.TextBody, !.HTMLBody = m.HTMLBody]

\* C29: the outcome of Validate is decided by len(to), the sender, the
\* subject and the two bodies alone: it is the outcome for the message
\* stripped of cc, bcc, headers and attachments and with other to entries
\* of the same number, so 256 cc entries do not count toward the limit and
\* empty or duplicate to entries pass.
C29_ValidateInspects ==
    query.op = "Validate" =>
        /\ query.text = Validate(Inspected(msg))
        /\ (Len(msg.To) \in 1..255 /\ msg.Sender # "" /\ msg.Subject # "" /\ msg.TextBody # "")
              => query.text = ""

\* Validate accepted a message with two empty to entries, 256 cc entries, a
\* bcc entry, headers and an attachment.
C29_Witness ==
    /\ query.op = "Validate"
    /\ query.text = ""
    /\ msg.To = <<"", "">>
    /\ Len(msg.CC) = 256
    /\ Len(msg.BCC) = 1
    /\ Len(msg.Headers) = 2
    /\ Len(msg.Attachments) = 1

\* The response r cut down to element i of the entry of email: the other
\* element of that entry is nil and the entries of other addresses are gone.
OwnSlot(r, email, i) ==
    IF email \in DOMAIN r.Recipients
    THEN SendResponse(0, [key \in {email} |->
                            [j \in 1..2 |-> IF j = i THEN r.Recipients[email][j] ELSE GoNil]])
    ELSE SendResponse(0, <<>>)

\* C30: GetStatus and GetMessageID answer for every address and every
\* mapping, the empty one included, with the zero value and found = false
\* when the address has no entry or the element is not usable; GetStatus is
\* decided by the first element and GetMessageID by the second element of
\* the entry of the address asked for, whatever the other element and the
\* entries of other addresses are.
C30_QueriesAreSlotwise ==
    /\ query.op = "GetStatus" =>
         /\ [status |-> query.status, ok |-> query.ok]
               \in GetStatus(OwnSlot(result, query.email, 1), query.email)
         /\ ~query.ok => query.status = 0
         /\ query.email \notin DOMAIN result.Recipients => ~query.ok
         /\ query.ok <=> ( /\ query.email \in DOMAIN result.Recipients
                           /\ result.Recipients[query.email][1].k \in {"float64", "float64big"} )
    /\ query.op = "GetMessageID" =>
         /\ [id |-> query.id, ok |-> query.ok]
               = GetMessageID(OwnSlot(result, query.email, 2), query.email)
         /\ ~query.ok => query.id = ""
         /\ query.email \notin DOMAIN result.Recipients => ~query.ok
         /\ query.ok <=> ( /\ query.email \in DOMAIN result.Recipients
                           /\ result.Recipients[query.email][2].k = "string" )

\* GetStatus found the status of an address whose entry has no message id
\* (GetMessageID reports not found for it), in a mapping with another address.
C30_Witness ==
    /\ query.op = "GetStatus"
    /\ query.ok
    /\ query.status = 200
    /\ ~GetMessageID(result, query.email).ok
    /\ result.Recipients[query.email][2] = GoNil
    /\ \E other \in DOMAIN result.Recipients : other # query.email

====
